---- MODULE Spec2Model ----
(***************************************************************************)
(* Morse encoder / decoder classes (MorseEnDecoder) of the cw-trainer      *)
(* repository, as a state machine.  Characters are their ASCII codes,      *)
(* LOW/HIGH and false/true are FALSE/TRUE, times are milliseconds.         *)
(***************************************************************************)
EXTENDS Integers, Sequences, FiniteSets, TLC

VARIABLES
  dec,      \* the morseDecoder object
  enc,      \* the morseEncoder object
  now,      \* millis()
  pin,      \* level of the encoder's output pin (morseOutPin)
  key,      \* raw level of the decoder's input pin at the last decode()
  decArg,   \* argument of the last morseDecoder::setspeed call
  encArg,   \* argument of the last morseEncoder::setspeed call
  emits,    \* characters the last decode() call stored, in order
  rx,       \* value the last read() call returned
  lost,     \* unread character the last decode() call overwrote
  sent,     \* character last written to the encoder
  run,      \* letters and spaces stored since the clean signal was last on
  burst,    \* what the keyer has sent since the last letter boundary
  pulse,    \* the one pulse keyed and how decode() classified it
  tx,       \* the last encoder operation and the timing of its output
  trainer,  \* the locals of morse_trainer()
  prefs     \* the preference table prefs[NUM_PREFS]

vars == <<dec, enc, now, pin, key, decArg, encArg, emits, rx, lost, sent, run, burst, pulse, tx, trainer, prefs>>

\* ------------------------------------------------------------------------
\* Bounds of the model
\* ------------------------------------------------------------------------
\* set_speed arguments tried: -NonPositive..SpeedMax
NonPositive == 2
SpeedMax == 40
\* the clock stops at MaxTime
MaxTime == 600
\* intervals between two decode() calls
TickSteps == {25, 200}
\* prefs[KEY_SPEED] the trainer starts with
KeySpeeds == {25}
\* a burst of at most MaxPulses pulses with at most MaxRests pauses; the
\* clock stops at BurstMaxTime
BurstMaxTime == 2200
MaxPulses == 15
MaxRests == 1
\* the round trip: the clock stops at LoopMaxTime, the character is written
\* in the first LoopWriteBy ms, at one of LoopSpeeds
LoopMaxTime == 2100
LoopWriteBy == 0
LoopSpeeds == {25}
\* the encoder: loop() runs every SendSteps ms until SendMaxTime, with at
\* most MaxSets setspeed() calls (SendSpeeds) and at most MaxWrites write()
\* calls (SendChars: 'e', ' ', '_', ']', '\\', '*' and '!')
SendSteps == {20}
SendMaxTime == 300
MaxSets == 2
MaxWrites == 2
SendSpeeds == {20, 30}
SendChars == {101, 32, 95, 93, 92, 42, 33}
\* encoder and decoder in one loop(): it runs every BothSteps ms until
\* BothMaxTime, one of BothChars ('e', 'T') is written once
BothSteps == {20}
BothMaxTime == 400
BothChars == {101, 84}
\* the trainer: MaxRounds rounds of groups of TrainerGroups characters drawn
\* from TrainerChars ('E', 'T'); the decoder delivers one of TrainerRx
\* ('E', 'T', ' ', '#') or nothing
MaxRounds == 3
TrainerGroups == {1, 2}
TrainerChars == {69, 84}
TrainerRx == {69, 84, 32, 35}
\* whole letters sent at PlanSpeeds wpm (dotTime 40), encode() every 20 ms up
\* to PlanMaxTime; the first character is written before the first pass of
\* loop(), PlanWrites characters in all, none after PlanWriteBy; the
\* characters written after the first are 'E' or ' '
PlanSpeeds == {30}
PlanSteps == {20}
PlanMaxTime == 1100
PlanWriteBy == 200
PlanWrites == 2
PlanNext == {69, 32}
\* an audio line sampled every 12 or 24 ms at 25 wpm (dotTime/2 = 24), the
\* samples at, just above and far below AudioThreshold
AudioSpeeds == {25}
AudioSteps == {12, 24}
AudioLevels == {0, 700, 701}
AudioMaxTime == 240
\* an audio line sampled every NoiseSteps ms up to PointerMaxTime, the speed
\* changed PointerSets times at most between 13 and 15 wpm
PointerSpeeds == {13, 15}
PointerSets == 1
PointerMaxTime == 1480
\* a key line sampled every 7 or 10 ms (so that 20 and 21 ms after a change
\* are both sampled) up to BounceMaxTime
BounceSteps == {7, 10}
BounceMaxTime == 90

\* the preferences the menu changes (KOCH_NUM, KOCH_SKIP, OUT_MODE), and the
\* values a saved table holds at KOCH_NUM and KOCH_SKIP at power-up
PrefsMenu == { 5, 6, 7 }

RomKoch == { 0, 39, 40, 255 }
\* the key speed at which two dots (100 ms) are a whole number of decode()
\* calls
LetterSpeeds == {24}
\* samples of an audio line taken every NoiseSteps ms
NoiseSteps == {40}
NoiseMaxTime == 1200
\* one pulse: the key goes down at PulseStart, the clock stops at
\* PulseMaxTime, the speed is one of PulseSpeeds and may be set again in
\* the first ChangeWithin ms of the pulse
PulseSpeeds == {13, 25, 900, 1200}
PulseMaxTime == 480
PulseStart == 50
ChangeWithin == 2

\* ------------------------------------------------------------------------
\* Program constants
\* ------------------------------------------------------------------------
morseTreetop == 63
morseTableLength == (morseTreetop * 2) + 1
\* log(64)/log(2)
morseTreeLevels == 6

NUL == 0
SPACE == 32
HASH == 35
STAR == 42

\* a table that holds 'E' at a second position, the first one
morseTable_Dup ==
  <<
     69, 53, 42, 72, 42, 52, 42, 83, 42, 42, 42, 86,
     42, 51, 42, 73, 42, 42, 42, 70, 42, 42, 42, 85,
     63, 42, 95, 42, 42, 50, 42, 69, 42, 42, 42, 76,
     34, 42, 42, 82, 42, 43, 46, 42, 42, 42, 42, 65,
     42, 42, 42, 80, 64, 42, 42, 87, 42, 42, 42, 74,
     39, 49, 42, 32, 42, 54, 45, 66, 42, 61, 42, 68,
     42, 47, 42, 88, 42, 42, 42, 78, 42, 42, 42, 67,
     59, 42, 33, 75, 42, 40, 41, 89, 42, 42, 42, 84,
     42, 55, 42, 90, 42, 42, 44, 71, 42, 42, 42, 81,
     42, 42, 42, 77, 58, 56, 42, 33, 42, 42, 42, 79,
     42, 57, 42, 42, 42, 48, 42
  >>

\* "*5*H*4*S***V*3*I***F***U?*_**2*E***L\"**R*+.****A***P@**W***J'1* *6-B*=*D*/"
\* "*X***N***C;*!K*()Y***T*7*Z**,G***Q***M:8*!***O*9***0*"   (ASCII codes;
\* the C array is 0-based, this sequence is 1-based: morseTable[i] in C is
\* TableAt(i) below)
morseTable ==
  << 42, 53, 42, 72, 42, 52, 42, 83, 42, 42, 42, 86, 42, 51, 42, 73,
     42, 42, 42, 70, 42, 42, 42, 85, 63, 42, 95, 42, 42, 50, 42, 69,
     42, 42, 42, 76, 34, 42, 42, 82, 42, 43, 46, 42, 42, 42, 42, 65,
     42, 42, 42, 80, 64, 42, 42, 87, 42, 42, 42, 74, 39, 49, 42, 32,
     42, 54, 45, 66, 42, 61, 42, 68, 42, 47, 42, 88, 42, 42, 42, 78,
     42, 42, 42, 67, 59, 42, 33, 75, 42, 40, 41, 89, 42, 42, 42, 84,
     42, 55, 42, 90, 42, 42, 44, 71, 42, 42, 42, 81, 42, 42, 42, 77,
     58, 56, 42, 33, 42, 42, 42, 79, 42, 57, 42, 42, 42, 48, 42 >>

\* morseTable[i] of the C code, i in 0..126; index 127 is the string's
\* terminating NUL
TableAt(i) == IF i = morseTableLength THEN NUL ELSE morseTable[i + 1]

\* ------------------------------------------------------------------------
\* Construction and speed
\* ------------------------------------------------------------------------
\* a decoder constructed with the space-written flag down
morseDecoder_Spaced(listenAudio, morsePullup) ==
  [ morseAudio        |-> listenAudio,
    activeLow         |-> morsePullup,
    wpm               |-> 13,
    AudioThreshold    |-> 700,
    debounceDelay     |-> 20,
    dotTime           |-> 1200 \div 13,
    dashTime          |-> (3 * 1200) \div 13,
    wordSpace         |-> (7 * 1200) \div 13,
    morseTableJumper  |-> (morseTreetop + 1) \div 2,
    morseTablePointer |-> morseTreetop,
    morseKeyer        |-> FALSE,
    morseSignalState  |-> FALSE,
    lastKeyerState    |-> FALSE,
    gotLastSig        |-> TRUE,
    morseSpace        |-> FALSE,
    decodedMorseChar  |-> NUL,
    lastDebounceTime  |-> 0,
    markTime          |-> 0,
    spaceTime         |-> 0 ]

morseDecoder(listenAudio, morsePullup) ==
  [ morseAudio        |-> listenAudio,
    activeLow         |-> morsePullup,
    wpm               |-> 13,
    AudioThreshold    |-> 700,
    debounceDelay     |-> 20,
    dotTime           |-> 1200 \div 13,
    dashTime          |-> (3 * 1200) \div 13,
    wordSpace         |-> (7 * 1200) \div 13,
    morseTableJumper  |-> (morseTreetop + 1) \div 2,
    morseTablePointer |-> morseTreetop,
    morseKeyer        |-> FALSE,
    morseSignalState  |-> FALSE,
    lastKeyerState    |-> FALSE,
    gotLastSig        |-> TRUE,
    morseSpace        |-> TRUE,
    decodedMorseChar  |-> NUL,
    lastDebounceTime  |-> 0,
    markTime          |-> 0,
    spaceTime         |-> 0 ]

\* a constructor that derives the word space from the rounded dot time
morseEncoder_Rounded ==
  [ sendingMorse         |-> FALSE,
    encodeMorseChar      |-> NUL,
    wpm                  |-> 13,
    dotTime              |-> 1200 \div 13,
    dashTime             |-> 3 * (1200 \div 13),
    wordSpace            |-> 7 * (1200 \div 13),
    morseSignals         |-> 0,
    morseSignalPos       |-> 0,
    morseSignalString    |-> << >>,
    sendingMorseSignalNr |-> 0,
    sendMorseTimer       |-> 0 ]

morseEncoder ==
  [ sendingMorse         |-> FALSE,
    encodeMorseChar      |-> NUL,
    wpm                  |-> 13,
    dotTime              |-> 1200 \div 13,
    dashTime             |-> (3 * 1200) \div 13,
    wordSpace            |-> (7 * 1200) \div 13,
    morseSignals         |-> 0,
    morseSignalPos       |-> 0,
    morseSignalString    |-> << >>,
    sendingMorseSignalNr |-> 0,
    sendMorseTimer       |-> 0 ]

\* a clamp that falls back to the constructor's speed
Clamp_Default(value) == IF value <= 0 THEN 13 ELSE value

\* wpm = value; if (wpm <= 0) wpm = 1;
Clamp(value) == IF value <= 0 THEN 1 ELSE value

\* a setspeed that multiplies the rounded dot time
morseDecoder_setspeed_Rounded(d, value) ==
  [ d EXCEPT !.wpm       = Clamp(value),
             !.dotTime   = 1200 \div Clamp(value),
             !.dashTime  = 3 * (1200 \div Clamp(value)),
             !.wordSpace = 7 * (1200 \div Clamp(value)) ]

morseDecoder_setspeed(d, value) ==
  [ d EXCEPT !.wpm       = Clamp(value),
             !.dotTime   = 1200 \div Clamp(value),
             !.dashTime  = (3 * 1200) \div Clamp(value),
             !.wordSpace = (7 * 1200) \div Clamp(value) ]

morseEncoder_setspeed(e, value) ==
  [ e EXCEPT !.wpm       = Clamp(value),
             !.dotTime   = 1200 \div Clamp(value),
             !.dashTime  = (3 * 1200) \div Clamp(value),
             !.wordSpace = (7 * 1200) \div Clamp(value) ]

\* ------------------------------------------------------------------------
\* morseDecoder: available, read
\* ------------------------------------------------------------------------
morseDecoder_available(d) == d.decodedMorseChar # NUL

\* the value read() returns
ReadValue(d) == d.decodedMorseChar

\* a read() that leaves the slot as it is
morseDecoder_read_Keep(d) == d

\* the decoder read() leaves
morseDecoder_read(d) == [ d EXCEPT !.decodedMorseChar = NUL ]

\* a digital front end that takes a reading for stable at debounceDelay
DigitalFrontEnd_AtLeast(d, currentTime, reading) ==
  LET keyer  == IF d.activeLow THEN ~reading ELSE reading
      ldt    == IF keyer # d.lastKeyerState THEN currentTime
                ELSE d.lastDebounceTime
      stable == (currentTime - ldt) >= d.debounceDelay
      sig    == IF stable THEN keyer ELSE d.morseSignalState
  IN [ d EXCEPT !.morseKeyer       = keyer,
                !.lastDebounceTime = ldt,
                !.morseSignalState = sig,
                !.markTime  = IF stable /\ sig THEN ldt ELSE d.markTime,
                !.spaceTime = IF stable /\ ~sig THEN ldt ELSE d.spaceTime ]

\* ------------------------------------------------------------------------
\* morseDecoder::decode, in the order of the code
\* ------------------------------------------------------------------------
\* digital front end: reading is digitalRead(morseInPin)
DigitalFrontEnd(d, currentTime, reading) ==
  LET keyer  == IF d.activeLow THEN ~reading ELSE reading
      ldt    == IF keyer # d.lastKeyerState THEN currentTime
                ELSE d.lastDebounceTime
      stable == (currentTime - ldt) > d.debounceDelay
      sig    == IF stable THEN keyer ELSE d.morseSignalState
  IN [ d EXCEPT !.morseKeyer       = keyer,
                !.lastDebounceTime = ldt,
                !.morseSignalState = sig,
                !.markTime  = IF stable /\ sig THEN ldt ELSE d.markTime,
                !.spaceTime = IF stable /\ ~sig THEN ldt ELSE d.spaceTime ]

\* an audio front end that takes a sample at the threshold for a signal
AudioFrontEnd_AtLeast(d, currentTime, audioSignal) ==
  IF audioSignal >= d.AudioThreshold
  THEN LET fresh == (currentTime - d.lastDebounceTime) > (d.dotTime \div 2)
       IN [ d EXCEPT !.markTime = IF fresh THEN currentTime ELSE d.markTime,
                     !.morseSignalState = IF fresh THEN TRUE
                                          ELSE d.morseSignalState,
                     !.lastDebounceTime = currentTime ]
  ELSE IF (currentTime - d.lastDebounceTime) > (d.dotTime \div 2)
          /\ d.morseSignalState = TRUE
       THEN [ d EXCEPT !.spaceTime = d.lastDebounceTime,
                       !.morseSignalState = FALSE ]
       ELSE d

\* audio front end: audioSignal is analogRead(morseInPin)
AudioFrontEnd(d, currentTime, audioSignal) ==
  IF audioSignal > d.AudioThreshold
  THEN LET fresh == (currentTime - d.lastDebounceTime) > (d.dotTime \div 2)
       IN [ d EXCEPT !.markTime = IF fresh THEN currentTime ELSE d.markTime,
                     !.morseSignalState = IF fresh THEN TRUE
                                          ELSE d.morseSignalState,
                     !.lastDebounceTime = currentTime ]
  ELSE IF (currentTime - d.lastDebounceTime) > (d.dotTime \div 2)
          /\ d.morseSignalState = TRUE
       THEN [ d EXCEPT !.spaceTime = d.lastDebounceTime,
                       !.morseSignalState = FALSE ]
       ELSE d

FrontEnd(d, currentTime, reading, audioSignal) ==
  IF d.morseAudio = FALSE
  THEN DigitalFrontEnd(d, currentTime, reading)
  ELSE AudioFrontEnd(d, currentTime, audioSignal)

\* a dot test that takes a pulse of exactly a quarter of a dot as well
IsDot_AtLeast(d) ==
  /\ (d.spaceTime - d.markTime) >= (d.dotTime \div 4)
  /\ (d.spaceTime - d.markTime) < (d.dashTime \div 2)

\* the pulse just ended is a dot / a dash (lines 240-250)
IsDot(d) ==
  /\ (d.spaceTime - d.markTime) > (d.dotTime \div 4)
  /\ (d.spaceTime - d.markTime) < (d.dashTime \div 2)

IsDash(d) ==
  /\ (d.spaceTime - d.markTime) > (d.dotTime \div 4)
  /\ ~((d.spaceTime - d.markTime) < (d.dashTime \div 2))
  /\ (d.spaceTime - d.markTime) < (d.dashTime + d.dotTime)

\* the error branch is taken: too many pulses in one character
ErrorFires(d) ==
  /\ ~d.morseSignalState
  /\ ~d.gotLastSig
  /\ ~(d.morseTableJumper > 0)

\* an error branch that stores the error mark without going back to the top
ClassifyPulse_NoReset(d, currentTime) ==
  IF d.gotLastSig THEN d
  ELSE IF d.morseTableJumper > 0
  THEN IF (currentTime - d.spaceTime) > (d.dotTime \div 2)
       THEN IF IsDot(d)
            THEN [ d EXCEPT
                     !.morseTablePointer =
                         d.morseTablePointer - d.morseTableJumper,
                     !.morseTableJumper = d.morseTableJumper \div 2,
                     !.gotLastSig = TRUE ]
            ELSE IF IsDash(d)
            THEN [ d EXCEPT
                     !.morseTablePointer =
                         d.morseTablePointer + d.morseTableJumper,
                     !.morseTableJumper = d.morseTableJumper \div 2,
                     !.gotLastSig = TRUE ]
            ELSE d
       ELSE d
  ELSE [ d EXCEPT !.decodedMorseChar = HASH, !.gotLastSig = TRUE ]

\* a classification that does not note that a dot has been taken
ClassifyPulse_Again(d, currentTime) ==
  IF d.gotLastSig THEN d
  ELSE IF d.morseTableJumper > 0
  THEN IF (currentTime - d.spaceTime) > (d.dotTime \div 2)
       THEN IF IsDot(d)
            THEN [ d EXCEPT
                     !.morseTablePointer =
                         d.morseTablePointer - d.morseTableJumper,
                     !.morseTableJumper = d.morseTableJumper \div 2 ]
            ELSE IF IsDash(d)
            THEN [ d EXCEPT
                     !.morseTablePointer =
                         d.morseTablePointer + d.morseTableJumper,
                     !.morseTableJumper = d.morseTableJumper \div 2,
                     !.gotLastSig = TRUE ]
            ELSE d
       ELSE d
  ELSE [ d EXCEPT !.decodedMorseChar  = HASH,
                  !.gotLastSig        = TRUE,
                  !.morseTableJumper  = (morseTreetop + 1) \div 2,
                  !.morseTablePointer = morseTreetop ]

\* a classification that does not halve the jump after a dash
ClassifyPulse_NoHalve(d, currentTime) ==
  IF d.gotLastSig THEN d
  ELSE IF d.morseTableJumper > 0
  THEN IF (currentTime - d.spaceTime) > (d.dotTime \div 2)
       THEN IF IsDot(d)
            THEN [ d EXCEPT
                     !.morseTablePointer =
                         d.morseTablePointer - d.morseTableJumper,
                     !.morseTableJumper = d.morseTableJumper \div 2,
                     !.gotLastSig = TRUE ]
            ELSE IF IsDash(d)
            THEN [ d EXCEPT
                     !.morseTablePointer =
                         d.morseTablePointer + d.morseTableJumper,
                     !.morseTableJumper = d.morseTableJumper,
                     !.gotLastSig = TRUE ]
            ELSE d
       ELSE d
  ELSE [ d EXCEPT !.decodedMorseChar  = HASH,
                  !.gotLastSig        = TRUE,
                  !.morseTableJumper  = (morseTreetop + 1) \div 2,
                  !.morseTablePointer = morseTreetop ]

\* if (!gotLastSig) { ... } with the signal released
ClassifyPulse(d, currentTime) ==
  IF d.gotLastSig THEN d
  ELSE IF d.morseTableJumper > 0
  THEN IF (currentTime - d.spaceTime) > (d.dotTime \div 2)
       THEN IF IsDot(d)
            THEN [ d EXCEPT
                     !.morseTablePointer =
                         d.morseTablePointer - d.morseTableJumper,
                     !.morseTableJumper = d.morseTableJumper \div 2,
                     !.gotLastSig = TRUE ]
            ELSE IF IsDash(d)
            THEN [ d EXCEPT
                     !.morseTablePointer =
                         d.morseTablePointer + d.morseTableJumper,
                     !.morseTableJumper = d.morseTableJumper \div 2,
                     !.gotLastSig = TRUE ]
            ELSE d
       ELSE d
  ELSE [ d EXCEPT !.decodedMorseChar  = HASH,
                  !.gotLastSig        = TRUE,
                  !.morseTableJumper  = (morseTreetop + 1) \div 2,
                  !.morseTablePointer = morseTreetop ]

\* a letter boundary that waits for more than two dots of silence
LetterFires_More(d, currentTime) ==
  /\ ~d.morseSignalState
  /\ (currentTime - d.spaceTime) > (d.dotTime * 2)
  /\ d.morseTableJumper < ((morseTreetop + 1) \div 2)

\* the letter boundary condition of line 267
LetterFires(d, currentTime) ==
  /\ ~d.morseSignalState
  /\ (currentTime - d.spaceTime) >= (d.dotTime * 2)
  /\ d.morseTableJumper < ((morseTreetop + 1) \div 2)

\* a letter boundary that stores assigned characters only
EmitLetter_Assigned(d, currentTime) ==
  IF LetterFires(d, currentTime)
  THEN [ d EXCEPT !.decodedMorseChar  =
                     IF TableAt(d.morseTablePointer) = STAR
                     THEN @ ELSE TableAt(d.morseTablePointer),
                  !.morseTableJumper  = (morseTreetop + 1) \div 2,
                  !.morseTablePointer = morseTreetop ]
  ELSE d

EmitLetter(d, currentTime) ==
  IF LetterFires(d, currentTime)
  THEN [ d EXCEPT !.decodedMorseChar  = TableAt(d.morseTablePointer),
                  !.morseTableJumper  = (morseTreetop + 1) \div 2,
                  !.morseTablePointer = morseTreetop ]
  ELSE d

\* the word boundary condition of line 274
SpaceFires(d, currentTime) ==
  /\ ~d.morseSignalState
  /\ (currentTime - d.spaceTime) > ((d.wordSpace * 2) \div 3)
  /\ d.morseSpace = FALSE

\* a space that does not set the space-written flag
EmitSpace_NoFlag(d, currentTime) ==
  IF SpaceFires(d, currentTime)
  THEN [ d EXCEPT !.decodedMorseChar = SPACE ]
  ELSE d

\* a space that waits for the slot to be read
EmitSpace_Polite(d, currentTime) ==
  IF SpaceFires(d, currentTime) /\ d.decodedMorseChar = NUL
  THEN [ d EXCEPT !.decodedMorseChar = SPACE, !.morseSpace = TRUE ]
  ELSE d

EmitSpace(d, currentTime) ==
  IF SpaceFires(d, currentTime)
  THEN [ d EXCEPT !.decodedMorseChar = SPACE, !.morseSpace = TRUE ]
  ELSE d

\* while there is a signal, reset some flags
ResetFlags(d) == [ d EXCEPT !.gotLastSig = FALSE, !.morseSpace = FALSE ]

decode(d, currentTime, reading, audioSignal) ==
  LET d1 == FrontEnd(d, currentTime, reading, audioSignal)
      d2 == ClassifyPulse(d1, currentTime)
      d3 == EmitLetter(d2, currentTime)
      d4 == IF ~d1.morseSignalState
            THEN EmitSpace(d3, currentTime)
            ELSE ResetFlags(d1)
  IN [ d4 EXCEPT !.lastKeyerState = d4.morseKeyer ]

\* ------------------------------------------------------------------------
\* morseEncoder: available, write, encode
\* ------------------------------------------------------------------------
morseEncoder_available(e) == ~e.sendingMorse

\* a write() that does not look at sendingMorse
morseEncoder_write_Busy(e, temp) ==
  IF temp # STAR
  THEN [ e EXCEPT !.encodeMorseChar = temp ]
  ELSE e

\* a write() that keeps a character already pending
morseEncoder_write_First(e, temp) ==
  IF ~e.sendingMorse /\ temp # STAR /\ e.encodeMorseChar = NUL
  THEN [ e EXCEPT !.encodeMorseChar = temp ]
  ELSE e

morseEncoder_write(e, temp) ==
  IF ~e.sendingMorse /\ temp # STAR
  THEN [ e EXCEPT !.encodeMorseChar = temp ]
  ELSE e

\* 0x0001 << i
Shl(i) == 2 ^ i

\* change to capital letter if not: if (c > 'Z') c -= 'z'-'Z'
ToCapital(c) == IF c > 90 THEN c - (122 - 90) ELSE c

\* the scan of the table: the first index holding c, morseTableLength if none
ScanTable(c) ==
  IF \E i \in 0..(morseTableLength - 1) : morseTable[i + 1] = c
  THEN CHOOSE i \in 0..(morseTableLength - 1) :
         /\ morseTable[i + 1] = c
         /\ \A j \in 0..(i - 1) : morseTable[j + 1] # c
  ELSE morseTableLength

\* the level of the tree a 1-based position is on: the first i below
\* morseTreeLevels with (pos + (1 << i)) % (2 << i) == 0
StartLevel(pos) ==
  IF \E i \in 0..(morseTreeLevels - 1) : (pos + Shl(i)) % Shl(i + 1) = 0
  THEN CHOOSE i \in 0..(morseTreeLevels - 1) :
         /\ (pos + Shl(i)) % Shl(i + 1) = 0
         /\ \A j \in 0..(i - 1) : (pos + Shl(j)) % Shl(j + 1) # 0
  ELSE morseTreeLevels

\* a path tracing that stores the signals in the order it finds them
RECURSIVE TracePath_Forward(_, _, _)
TracePath_Forward(pos, i, str) ==
  IF i >= morseTreeLevels THEN str
  ELSE LET add  == Shl(i)
           test == (pos + add) \div Shl(i + 1)
       IN IF test % 2 = 1
          THEN TracePath_Forward(pos + add, i + 1, str \o << "." >>)
          ELSE TracePath_Forward(pos - add, i + 1, str \o << "-" >>)

\* the loop "for (i = startLevel; i < morseTreeLevels; i++)": the signal of
\* level i is stored in front of the signals of the levels below it
RECURSIVE TracePath(_, _, _)
TracePath(pos, i, str) ==
  IF i >= morseTreeLevels THEN str
  ELSE LET add  == Shl(i)
           test == (pos + add) \div Shl(i + 1)
       IN IF test % 2 = 1
          THEN TracePath(pos + add, i + 1, << "." >> \o str)
          ELSE TracePath(pos - add, i + 1, << "-" >> \o str)

\* morseSignalString of a character (without its terminating NUL)
SignalString(c) ==
  LET pos   == ScanTable(c) + 1
      level == StartLevel(pos)
  IN IF morseTreeLevels - level > 0
     THEN TracePath(pos, level, << >>)
     ELSE << " " >>

\* a start that raises the output whatever the first signal is
StartSending_Always(e, currentTime, out) ==
  IF ~e.sendingMorse /\ e.encodeMorseChar # NUL
  THEN LET c   == ToCapital(e.encodeMorseChar)
           str == SignalString(c)
       IN [ e   |-> [ e EXCEPT !.encodeMorseChar      = c,
                               !.morseSignals         = Len(str),
                               !.morseSignalPos       = Len(str),
                               !.morseSignalString    = str,
                               !.sendingMorse         = TRUE,
                               !.sendingMorseSignalNr = 0,
                               !.sendMorseTimer       = currentTime ],
            out |-> TRUE ]
  ELSE [ e |-> e, out |-> out ]

\* if (!sendingMorse && encodeMorseChar) { ... }: returns encoder and pin
StartSending(e, currentTime, out) ==
  IF ~e.sendingMorse /\ e.encodeMorseChar # NUL
  THEN LET c   == ToCapital(e.encodeMorseChar)
           str == SignalString(c)
       IN [ e   |-> [ e EXCEPT !.encodeMorseChar      = c,
                               !.morseSignals         = Len(str),
                               !.morseSignalPos       = Len(str),
                               !.morseSignalString    = str,
                               !.sendingMorse         = TRUE,
                               !.sendingMorseSignalNr = 0,
                               !.sendMorseTimer       = currentTime ],
            out |-> IF str[1] # " " THEN TRUE ELSE out ]
  ELSE [ e |-> e, out |-> out ]

\* the signal the switch looks at; past the end of the string it is the NUL
CurrentSignal(e) ==
  IF e.sendingMorseSignalNr < Len(e.morseSignalString)
  THEN e.morseSignalString[e.sendingMorseSignalNr + 1]
  ELSE "NUL"

MarkSent(e, currentTime) ==
  [ e EXCEPT !.sendMorseTimer = currentTime,
             !.morseSignalString[e.sendingMorseSignalNr + 1] = "x" ]

\* a switch whose word space ends as soon as wordSpace - dashTime is over
SendSignal_AtLeast(e, currentTime, out) ==
  LET sig     == CurrentSignal(e)
      elapsed == currentTime - e.sendMorseTimer
  IN CASE sig = "." ->
            IF elapsed >= e.dotTime
            THEN [ e |-> MarkSent(e, currentTime), out |-> FALSE ]
            ELSE [ e |-> e, out |-> out ]
       [] sig = "-" ->
            IF elapsed >= e.dashTime
            THEN [ e |-> MarkSent(e, currentTime), out |-> FALSE ]
            ELSE [ e |-> e, out |-> out ]
       [] sig = "x" ->
            IF e.sendingMorseSignalNr < e.morseSignals - 1
            THEN IF elapsed >= e.dotTime
                 THEN [ e |-> [ e EXCEPT !.sendingMorseSignalNr = @ + 1,
                                         !.sendMorseTimer = currentTime ],
                        out |-> TRUE ]
                 ELSE [ e |-> e, out |-> out ]
            ELSE IF elapsed >= e.dashTime
                 THEN [ e |-> [ e EXCEPT !.sendingMorseSignalNr = @ + 1,
                                         !.sendMorseTimer = currentTime ],
                        out |-> out ]
                 ELSE [ e |-> e, out |-> out ]
       [] OTHER ->
            IF elapsed >= e.wordSpace - e.dashTime
            THEN [ e |-> [ e EXCEPT !.sendingMorseSignalNr = @ + 1 ],
                   out |-> out ]
            ELSE [ e |-> e, out |-> out ]

\* a switch whose dot has to last longer than dotTime
SendSignal_LongDot(e, currentTime, out) ==
  LET sig     == CurrentSignal(e)
      elapsed == currentTime - e.sendMorseTimer
  IN CASE sig = "." ->
            IF elapsed > e.dotTime
            THEN [ e |-> MarkSent(e, currentTime), out |-> FALSE ]
            ELSE [ e |-> e, out |-> out ]
       [] sig = "-" ->
            IF elapsed >= e.dashTime
            THEN [ e |-> MarkSent(e, currentTime), out |-> FALSE ]
            ELSE [ e |-> e, out |-> out ]
       [] sig = "x" ->
            IF e.sendingMorseSignalNr < e.morseSignals - 1
            THEN IF elapsed >= e.dotTime
                 THEN [ e |-> [ e EXCEPT !.sendingMorseSignalNr = @ + 1,
                                         !.sendMorseTimer = currentTime ],
                        out |-> TRUE ]
                 ELSE [ e |-> e, out |-> out ]
            ELSE IF elapsed >= e.dashTime
                 THEN [ e |-> [ e EXCEPT !.sendingMorseSignalNr = @ + 1,
                                         !.sendMorseTimer = currentTime ],
                        out |-> out ]
                 ELSE [ e |-> e, out |-> out ]
       [] OTHER ->
            IF elapsed > e.wordSpace - e.dashTime
            THEN [ e |-> [ e EXCEPT !.sendingMorseSignalNr = @ + 1 ],
                   out |-> out ]
            ELSE [ e |-> e, out |-> out ]

\* a switch whose pause after the last signal of a letter lasts a dot
SendSignal_ShortGap(e, currentTime, out) ==
  LET sig     == CurrentSignal(e)
      elapsed == currentTime - e.sendMorseTimer
  IN CASE sig = "." ->
            IF elapsed >= e.dotTime
            THEN [ e |-> MarkSent(e, currentTime), out |-> FALSE ]
            ELSE [ e |-> e, out |-> out ]
       [] sig = "-" ->
            IF elapsed >= e.dashTime
            THEN [ e |-> MarkSent(e, currentTime), out |-> FALSE ]
            ELSE [ e |-> e, out |-> out ]
       [] sig = "x" ->
            IF e.sendingMorseSignalNr < e.morseSignals - 1
            THEN IF elapsed >= e.dotTime
                 THEN [ e |-> [ e EXCEPT !.sendingMorseSignalNr = @ + 1,
                                         !.sendMorseTimer = currentTime ],
                        out |-> TRUE ]
                 ELSE [ e |-> e, out |-> out ]
            ELSE IF elapsed >= e.dotTime
                 THEN [ e |-> [ e EXCEPT !.sendingMorseSignalNr = @ + 1,
                                         !.sendMorseTimer = currentTime ],
                        out |-> out ]
                 ELSE [ e |-> e, out |-> out ]
       [] OTHER ->
            IF elapsed > e.wordSpace - e.dashTime
            THEN [ e |-> [ e EXCEPT !.sendingMorseSignalNr = @ + 1 ],
                   out |-> out ]
            ELSE [ e |-> e, out |-> out ]

\* switch (morseSignalString[sendingMorseSignalNr])
SendSignal(e, currentTime, out) ==
  LET sig     == CurrentSignal(e)
      elapsed == currentTime - e.sendMorseTimer
  IN CASE sig = "." ->
            IF elapsed >= e.dotTime
            THEN [ e |-> MarkSent(e, currentTime), out |-> FALSE ]
            ELSE [ e |-> e, out |-> out ]
       [] sig = "-" ->
            IF elapsed >= e.dashTime
            THEN [ e |-> MarkSent(e, currentTime), out |-> FALSE ]
            ELSE [ e |-> e, out |-> out ]
       [] sig = "x" ->
            IF e.sendingMorseSignalNr < e.morseSignals - 1
            THEN IF elapsed >= e.dotTime
                 THEN [ e |-> [ e EXCEPT !.sendingMorseSignalNr = @ + 1,
                                         !.sendMorseTimer = currentTime ],
                        out |-> TRUE ]
                 ELSE [ e |-> e, out |-> out ]
            ELSE IF elapsed >= e.dashTime
                 THEN [ e |-> [ e EXCEPT !.sendingMorseSignalNr = @ + 1,
                                         !.sendMorseTimer = currentTime ],
                        out |-> out ]
                 ELSE [ e |-> e, out |-> out ]
       [] OTHER ->
            IF elapsed > e.wordSpace - e.dashTime
            THEN [ e |-> [ e EXCEPT !.sendingMorseSignalNr = @ + 1 ],
                   out |-> out ]
            ELSE [ e |-> e, out |-> out ]

\* an end of transmission that keeps the character
FinishSending_Keep(e) ==
  IF e.sendingMorseSignalNr >= e.morseSignals
  THEN [ e EXCEPT !.sendingMorse = FALSE ]
  ELSE e

\* if (sendingMorseSignalNr >= morseSignals) { ... }
FinishSending(e) ==
  IF e.sendingMorseSignalNr >= e.morseSignals
  THEN [ e EXCEPT !.sendingMorse = FALSE, !.encodeMorseChar = NUL ]
  ELSE e

encode(e, currentTime, out) ==
  LET s1 == StartSending(e, currentTime, out)
  IN IF s1.e.sendingMorse
     THEN LET s2 == SendSignal(s1.e, currentTime, s1.out)
          IN [ e |-> FinishSending(s2.e), out |-> s2.out ]
     ELSE s1

\* ------------------------------------------------------------------------
\* The preference table of the trainer: prefs_set, prefs_init
\* ------------------------------------------------------------------------
SAVED_FLG == 0
GROUP_NUM == 1
GROUP_DLY == 2
KEY_SPEED == 3
CHAR_SET == 4
KOCH_NUM == 5
KOCH_SKIP == 6
OUT_MODE == 7
NUM_PREFS == 8

\* the flag value of a saved table
SAVED == 170

\* byte prefs[NUM_PREFS]: a global, zero before prefs_init()
NoPrefs == [ i \in 0..(NUM_PREFS - 1) |-> 0 ]

\* the limit tables of prefs_set, lo_lim[i] at i + 1
lo_lim == << 0, 1, 0, 10, 1, 1, 0, 0 >>

hi_lim == << 170, 15, 30, 30, 6, 40, 39, 1 >>

\* constrain(x, a, b)
constrain(x, a, b) == IF x < a THEN a ELSE IF x > b THEN b ELSE x

\* a value stored in a byte
Byte(x) == x % 256

\* new_val of prefs_set(pref, val) on the table p, indx the constrained pref
NewVal(p, indx, val) ==
  LET v1 == IF val > hi_lim[indx + 1] THEN lo_lim[indx + 1] ELSE val
      v2 == IF v1 < lo_lim[indx + 1] THEN hi_lim[indx + 1] ELSE v1
      nv == Byte(constrain(v2, lo_lim[indx + 1], hi_lim[indx + 1]))
  IN IF indx = KOCH_SKIP /\ nv >= p[KOCH_NUM]
     THEN Byte(p[KOCH_NUM] - 1)
     ELSE nv

\* prefs_set(pref, val): the table afterwards; the value returned is the
\* entry it stored
prefs_set(p, pref, val) ==
  LET indx == constrain(pref, 0, NUM_PREFS - 1)
  IN [ p EXCEPT ![indx] = NewVal(p, indx, val) ]

\* the defaults of prefs_init(), in the order it sets them
Defaults ==
  << << SAVED_FLG, 0 >>, << GROUP_NUM, 1 >>, << GROUP_DLY, 0 >>,
     << KEY_SPEED, 25 >>, << CHAR_SET, 5 >>, << KOCH_NUM, 5 >>,
     << KOCH_SKIP, 0 >>, << OUT_MODE, 1 >> >>

\* the prefs_set calls of calls, in order, on the table p
RECURSIVE SetAll(_, _)
SetAll(p, calls) ==
  IF calls = << >> THEN p
  ELSE SetAll(prefs_set(p, Head(calls)[1], Head(calls)[2]), Tail(calls))

\* prefs_init() with the EEPROM holding rom[i + 1] at address i
prefs_init(p, rom) ==
  IF rom[1] = SAVED
  THEN SetAll(p, [ i \in 1..NUM_PREFS |-> << i - 1, rom[i] >> ])
  ELSE SetAll(p, Defaults)

\* ------------------------------------------------------------------------
\* Speed changes on a constructed decoder and encoder
\* ------------------------------------------------------------------------
NoArg == 0 - 1000

NoRun == [ letters |-> 0, spaces |-> 0 ]

\* n: pulses ended since the last letter boundary; hashes: error marks
\* stored since then; syms: the pulses keyed since the decoder was last at
\* the tree top; word: the pulses the last stored letter stands for;
\* cur: the pulse being keyed; hold: decode() calls the key stays put;
\* total: pulses keyed so far; resting: the keyer pauses until the word
\* space has passed; rests: pauses made so far
NoBurst == [ n |-> 0, hashes |-> 0, syms |-> << >>, word |-> << >>,
             cur |-> "", hold |-> 0, total |-> 0, resting |-> FALSE,
             rests |-> 0 ]

\* downAt: millis() of the first decode() call that found the key down
\* (0: not yet); d, dot, dash, wpm: spaceTime - markTime, dotTime, dashTime
\* and wpm when decode() last got to the classification of a pulse;
\* kind: what it took the pulse for ("": no pulse was classified yet)
NoPulse == [ downAt |-> 0, d |-> 0, dot |-> 0, dash |-> 0, wpm |-> 0,
             kind |-> "" ]

\* op: the last operation on the encoder ("write", "setspeed", "encode");
\* upAt: millis() of the encode() call that last asserted the output;
\* dur: dotTime or dashTime, by the symbol asserted, at that call;
\* fellAfter: ms from upAt to the encode() call that dropped the output
\* (-1: not dropped yet); char: the character last accepted by write();
\* doneAfter: ms from sendMorseTimer to the encode() call that ended the
\* last transmission (-1: none ended yet), doneSym: the symbol it ended
\* on, doneNeed: the time that symbol had to last at that call;
\* writes, sets: write() and setspeed() calls so far; over: the pending
\* character the last accepted write() replaced before an encode() call
\* had taken it (NUL: none)
NoTx == [ op |-> "", upAt |-> 0, dur |-> 0, fellAfter |-> 0 - 1,
          char |-> NUL, doneAfter |-> 0 - 1, doneSym |-> "",
          doneNeed |-> 0, writes |-> 0, sets |-> 0, over |-> NUL ]

\* phase: where morse_trainer() is ("init": before the training loop,
\* "check": in the check loop, "end": the check loop is over, "exit": a
\* button ended the training loop); n: prefs[GROUP_NUM]; cw_tx, error,
\* rx_cnt: the locals; drawn: this round's cw_tx came from random();
\* got: the characters other than ' ' received in this round; before,
\* erred: cw_tx and error as the round before ended; rounds: rounds begun
NoTrainer == [ phase |-> "init", n |-> 1, cw_tx |-> << >>, error |-> FALSE,
               rx_cnt |-> 0, drawn |-> FALSE, got |-> << >>,
               before |-> << >>, erred |-> FALSE, rounds |-> 0 ]

InitSpeed ==
  /\ dec = morseDecoder(FALSE, FALSE)
  /\ enc = morseEncoder
  /\ now = 0
  /\ pin = FALSE
  /\ decArg = NoArg
  /\ encArg = NoArg
  /\ key = FALSE
  /\ emits = << >>
  /\ rx = NoArg
  /\ lost = NUL
  /\ sent = NUL
  /\ run = NoRun
  /\ burst = NoBurst
  /\ pulse = NoPulse
  /\ tx = NoTx
  /\ trainer = NoTrainer
  /\ prefs = NoPrefs

DecSetSpeed ==
  \E v \in (0 - NonPositive)..SpeedMax :
    /\ dec' = morseDecoder_setspeed(dec, v)
    /\ decArg' = v
    /\ UNCHANGED <<enc, now, pin, key, encArg, emits, rx, lost, sent, run, burst, pulse, tx, trainer, prefs>>

EncSetSpeed ==
  \E v \in (0 - NonPositive)..SpeedMax :
    /\ enc' = morseEncoder_setspeed(enc, v)
    /\ encArg' = v
    /\ UNCHANGED <<dec, now, pin, key, decArg, emits, rx, lost, sent, run, burst, pulse, tx, trainer, prefs>>

NextSpeed == DecSetSpeed \/ EncSetSpeed

SpecSpeed == InitSpeed /\ [][NextSpeed]_vars

\* C8 as stated: after set_speed(wpm), wpm >= 1, dot_duration = 1200/wpm,
\* dash_duration = 3 x dot_duration, word_space_duration = 7 x dot_duration.
C8_SpeedTimesDot ==
  /\ decArg >= 1 => /\ dec.dotTime   = 1200 \div decArg
                    /\ dec.dashTime  = 3 * dec.dotTime
                    /\ dec.wordSpace = 7 * dec.dotTime
  /\ encArg >= 1 => /\ enc.dotTime   = 1200 \div encArg
                    /\ enc.dashTime  = 3 * enc.dotTime
                    /\ enc.wordSpace = 7 * enc.dotTime

\* C8 amended: after set_speed(wpm), wpm >= 1, on the decoder and on the
\* encoder alike, dot_duration = 1200/wpm, dash_duration = 3600/wpm and
\* word_space_duration = 8400/wpm, each an integer division of its own.
C8_Speed ==
  /\ decArg >= 1 => /\ dec.wpm       = decArg
                    /\ dec.dotTime   = 1200 \div decArg
                    /\ dec.dashTime  = 3600 \div decArg
                    /\ dec.wordSpace = 8400 \div decArg
  /\ encArg >= 1 => /\ enc.wpm       = encArg
                    /\ enc.dotTime   = 1200 \div encArg
                    /\ enc.dashTime  = 3600 \div encArg
                    /\ enc.wordSpace = 8400 \div encArg

\* set_speed has acted on both, with speeds that do not divide 1200
C8_Witness == decArg = 7 /\ encArg = 13

\* C9 as stated: at 13 wpm dot_duration = 92, dash_duration = 277 and
\* word_space_duration = 646.
C9_At13Dash277 ==
  /\ dec.wpm = 13 =>
       dec.dotTime = 92 /\ dec.dashTime = 277 /\ dec.wordSpace = 646
  /\ enc.wpm = 13 =>
       enc.dotTime = 92 /\ enc.dashTime = 277 /\ enc.wordSpace = 646

\* C9 amended: at 13 wpm, set or freshly constructed, dot_duration = 92,
\* dash_duration = 276 and word_space_duration = 646 milliseconds.
C9_At13 ==
  /\ dec.wpm = 13 =>
       dec.dotTime = 92 /\ dec.dashTime = 276 /\ dec.wordSpace = 646
  /\ enc.wpm = 13 =>
       enc.dotTime = 92 /\ enc.dashTime = 276 /\ enc.wordSpace = 646

\* a decoder set to 13 wpm next to a freshly constructed encoder
C9_Witness == decArg = 13 /\ encArg = NoArg /\ enc.wpm = 13

\* C10: set_speed(wpm) with wpm <= 0 is never rejected and never divides
\* by zero; it leaves the wpm and the durations of set_speed(1).
C10_Clamp ==
  /\ (decArg # NoArg /\ decArg <= 0) =>
       /\ dec.wpm = 1
       /\ dec.dotTime = 1200 /\ dec.dashTime = 3600 /\ dec.wordSpace = 8400
       /\ dec = morseDecoder_setspeed(dec, 1)
  /\ (encArg # NoArg /\ encArg <= 0) =>
       /\ enc.wpm = 1
       /\ enc.dotTime = 1200 /\ enc.dashTime = 3600 /\ enc.wordSpace = 8400
       /\ enc = morseEncoder_setspeed(enc, 1)

\* set_speed(-NonPositive) on the decoder and set_speed(0) on the encoder
C10_Witness == decArg = 0 - NonPositive /\ encArg = 0

\* ------------------------------------------------------------------------
\* A decoder on a keyed line (digital mode), polled by the trainer's loop
\* ------------------------------------------------------------------------
\* the characters one decode() call stores in decodedMorseChar, in order
Emitted(d, currentTime, reading, audioSignal) ==
  LET d1 == FrontEnd(d, currentTime, reading, audioSignal)
      d2 == ClassifyPulse(d1, currentTime)
      d3 == EmitLetter(d2, currentTime)
  IN IF d1.morseSignalState THEN << >>
     ELSE (IF ErrorFires(d1) THEN << HASH >> ELSE << >>)
          \o (IF LetterFires(d2, currentTime)
              THEN << TableAt(d2.morseTablePointer) >> ELSE << >>)
          \o (IF SpaceFires(d3, currentTime) THEN << SPACE >> ELSE << >>)

\* the count of letters and spaces of the silence run, after a decode()
\* call that left the decoder d and stored the characters e
RunAfter(r, d, e) ==
  IF d.morseSignalState THEN NoRun
  ELSE [ letters |-> r.letters
                     + Cardinality({ i \in 1..Len(e) :
                                       e[i] # SPACE /\ e[i] # HASH }),
         spaces  |-> r.spaces
                     + Cardinality({ i \in 1..Len(e) : e[i] = SPACE }) ]

InitKey ==
  /\ dec = morseDecoder(FALSE, TRUE)
  /\ enc = morseEncoder
  /\ now = 0
  /\ pin = FALSE
  /\ key = FALSE
  /\ decArg = NoArg
  /\ encArg = NoArg
  /\ emits = << >>
  /\ rx = NoArg
  /\ lost = NUL
  /\ sent = NUL
  /\ run = NoRun
  /\ burst = NoBurst
  /\ pulse = NoPulse
  /\ tx = NoTx
  /\ trainer = NoTrainer
  /\ prefs = NoPrefs

\* morseInput.setspeed(prefs[KEY_SPEED]) before the first decode()
KeySetSpeed ==
  /\ now = 0
  /\ decArg = NoArg
  /\ \E v \in KeySpeeds :
       /\ dec' = morseDecoder_setspeed(dec, v)
       /\ decArg' = v
  /\ UNCHANGED <<enc, now, pin, key, encArg, emits, rx, lost, sent, run, burst, pulse, tx, trainer, prefs>>

\* one morseInput.decode() call, dt ms after the last one, with the key
\* down or up
KeyTick ==
  \E dt \in TickSteps, down \in BOOLEAN :
    LET reading == IF dec.activeLow THEN ~down ELSE down
        e == Emitted(dec, now + dt, reading, 0)
    IN /\ decArg # NoArg
       /\ now + dt <= MaxTime
       /\ now' = now + dt
       /\ key' = down
       /\ dec' = decode(dec, now + dt, reading, 0)
       /\ emits' = e
       /\ lost' = IF e # << >> THEN dec.decodedMorseChar ELSE NUL
       /\ rx' = NoArg
       /\ run' = RunAfter(run, decode(dec, now + dt, reading, 0), e)
       /\ UNCHANGED <<enc, pin, decArg, encArg, sent, burst, pulse, tx, trainer, prefs>>

\* morseInput.read()
KeyRead ==
  /\ decArg # NoArg
  /\ rx' = ReadValue(dec)
  /\ dec' = morseDecoder_read(dec)
  /\ emits' = << >>
  /\ lost' = NUL
  /\ UNCHANGED <<enc, now, pin, key, decArg, encArg, sent, run, burst, pulse, tx, trainer, prefs>>

NextKey == KeySetSpeed \/ KeyTick \/ KeyRead

SpecKey == InitKey /\ [][NextKey]_vars

\* a letter and then the space were stored by the last decode() call
LetterAndSpace ==
  Len(emits) = 2 /\ emits[1] # HASH /\ emits[2] = SPACE

\* C3: in a decoder tick in which both the letter boundary and the word
\* boundary fire, the character left in the pending slot is the decoded
\* letter, not the space.
C3_LetterPriority ==
  LetterAndSpace => dec.decodedMorseChar = emits[1]

\* C4: during one run of silence after a completed letter the space is
\* stored exactly once, at the first decode() call at which the silence
\* exceeds (2/3) x word_space_duration, and never again before the signal
\* is asserted again.
C4_OneSpace ==
  /\ run.spaces <= 1
  /\ (\E i \in 1..Len(emits) : emits[i] = SPACE)
       => 3 * (now - dec.spaceTime) > 2 * dec.wordSpace
  /\ ( /\ run.letters >= 1
       /\ ~dec.morseSignalState
       /\ 3 * (now - dec.spaceTime) > 2 * dec.wordSpace )
       => run.spaces = 1

\* a later decode() call of a silence run that has stored its letter and
\* its space already
C4_Witness ==
  /\ run.letters >= 1
  /\ run.spaces = 1
  /\ emits = << >>
  /\ rx = NoArg
  /\ ~dec.morseSignalState
  /\ 3 * (now - dec.spaceTime) > 2 * dec.wordSpace

\* C6: read() returns the pending character and clears the slot; after it
\* available() is false and stays false over every decode() call that
\* stores nothing; a read() with nothing pending returns the empty value.
C6_ReadClears ==
  [][ /\ (rx' # NoArg) =>
           /\ rx' = dec.decodedMorseChar
           /\ ~morseDecoder_available(dec')
      /\ (rx' = NoArg /\ emits' = << >> /\ ~morseDecoder_available(dec)) =>
           ~morseDecoder_available(dec') ]_vars

\* a read() has returned a decoded letter and the slot is empty
C6_Witness ==
  /\ rx # NoArg
  /\ rx # NUL
  /\ rx # SPACE
  /\ ~morseDecoder_available(dec)

\* C7: the output is a single slot.  Whatever a decode() call stores
\* replaces an unread character; the next read() returns the character
\* stored last, and nothing is queued.
C7_Mailbox ==
  emits # << >> => ReadValue(dec) = emits[Len(emits)]

\* an unread character was overwritten by the last decode() call
C7_Witness ==
  /\ lost # NUL
  /\ emits # << >>
  /\ ReadValue(dec) # lost

\* ------------------------------------------------------------------------
\* A decoder keyed with bursts of well-formed dots and dashes: a dot is
\* held over two decode() calls, a dash over three, the gap after a dot
\* lasts three and after a dash two, a pause lasts until the word space has
\* passed, and decode() is called every ShortStep ms
\* ------------------------------------------------------------------------
ShortStep == CHOOSE s \in TickSteps : \A t \in TickSteps : s <= t

\* the 0-based table index the pulses syms lead to from the tree top
RECURSIVE Walk(_, _, _)
Walk(pointer, jumper, syms) ==
  IF syms = << >> THEN pointer
  ELSE Walk(IF Head(syms) = "." THEN pointer - jumper ELSE pointer + jumper,
            jumper \div 2, Tail(syms))

\* the keyer's book-keeping after a decode() call that took the decoder
\* from d to dd and stored the characters e
BurstAfter(b, d, dd, e) ==
  LET fell   == d.morseSignalState /\ ~dd.morseSignalState
      err    == \E i \in 1..Len(e) : e[i] = HASH
      letter == \E i \in 1..Len(e) : e[i] # HASH /\ e[i] # SPACE
      space  == \E i \in 1..Len(e) : e[i] = SPACE
      syms1  == IF err THEN << >>
                ELSE IF fell THEN Append(b.syms, b.cur) ELSE b.syms
      n1     == IF fell THEN b.n + 1 ELSE b.n
      h1     == IF err THEN b.hashes + 1 ELSE b.hashes
  IN [ b EXCEPT !.n      = IF letter \/ space THEN 0 ELSE n1,
                !.hashes = IF letter \/ space THEN 0 ELSE h1,
                !.syms   = IF letter THEN << >> ELSE syms1,
                !.word   = IF letter THEN syms1 ELSE << >> ]

\* one pass of the check loop with the key where the keyer holds it:
\* morseInput.decode(); if (morseInput.available()) morseInput.read();
BurstStep(down, b) ==
  LET reading == IF dec.activeLow THEN ~down ELSE down
      t  == now + ShortStep
      dd == decode(dec, t, reading, 0)
      e  == Emitted(dec, t, reading, 0)
  IN /\ decArg # NoArg
     /\ t <= BurstMaxTime
     /\ now' = t
     /\ key' = down
     /\ dec' = IF morseDecoder_available(dd) THEN morseDecoder_read(dd)
               ELSE dd
     /\ emits' = e
     /\ lost' = IF e # << >> THEN dec.decodedMorseChar ELSE NUL
     /\ rx' = IF morseDecoder_available(dd) THEN ReadValue(dd) ELSE NoArg
     /\ run' = RunAfter(run, dd, e)
     /\ burst' = BurstAfter(b, dec, dd, e)
     /\ UNCHANGED <<enc, pin, decArg, encArg, sent, pulse, tx, trainer, prefs>>

\* the key stays where it is
BurstHold ==
  /\ burst.hold > 0
  /\ BurstStep(key, [ burst EXCEPT !.hold = @ - 1 ])

\* the key goes down for a dot or a dash
BurstPress ==
  /\ burst.hold = 0
  /\ ~key
  /\ burst.total < MaxPulses
  /\ (burst.resting => run.spaces = 1)
  /\ \E sym \in { ".", "-" } :
       BurstStep(TRUE, [ burst EXCEPT !.cur = sym,
                                      !.hold = IF sym = "." THEN 1 ELSE 2,
                                      !.total = @ + 1,
                                      !.resting = FALSE ])

\* the key goes up
BurstRelease ==
  /\ burst.hold = 0
  /\ key
  /\ BurstStep(FALSE, [ burst EXCEPT
                          !.hold = IF burst.cur = "." THEN 2 ELSE 1 ])

\* the key stays up: the burst is over
BurstPause ==
  /\ burst.hold = 0
  /\ ~key
  /\ (burst.resting \/ burst.rests < MaxRests)
  /\ BurstStep(FALSE, [ burst EXCEPT
                          !.resting = TRUE,
                          !.rests = IF burst.resting THEN @ ELSE @ + 1 ])

InitBurst == InitKey

BurstSetSpeed == KeySetSpeed

NextBurst ==
  BurstSetSpeed \/ BurstHold \/ BurstPress \/ BurstRelease \/ BurstPause

SpecBurst == InitBurst /\ [][NextBurst]_vars

\* C2 as stated: any number n >= 7 of valid pulses without a letter
\* boundary yields the error character exactly once.
C2_ErrorOnce ==
  burst.n >= 7 => burst.hashes = 1

\* C2 amended: n valid pulses without a letter boundary yield one error
\* character for every seven pulses (exactly one for 7 <= n <= 13); it is
\* stored when the seventh pulse ends, the decoder is then at the tree top,
\* and the pulses that follow decode as a letter of their own.
C2_Overflow ==
  /\ burst.hashes = burst.n \div 7
  /\ (\E i \in 1..Len(emits) : emits[i] = HASH) =>
       /\ dec.morseTablePointer = morseTreetop
       /\ dec.morseTableJumper = (morseTreetop + 1) \div 2
       /\ burst.n % 7 = 0
  /\ (emits # << >> /\ emits[1] # HASH /\ emits[1] # SPACE) =>
       emits[1] = TableAt(Walk(morseTreetop, (morseTreetop + 1) \div 2,
                               burst.word))

\* after seven pulses and their error mark, a letter of the pulses that
\* followed has been stored
C2_Witness ==
  /\ emits # << >>
  /\ emits[1] # HASH
  /\ emits[1] # SPACE
  /\ burst.total >= 9
  /\ Len(burst.word) = burst.total - 7

\* C29: between two assertions of the clean signal a pulse is classified
\* once: however many decode() calls the silence has seen, the decoder is
\* where one move per pulse keyed since it was last at the tree top leads,
\* with the jump halved once per pulse.
C29_ClassifiedOnce ==
  ~dec.morseSignalState /\ dec.gotLastSig =>
    /\ Len(burst.syms) <= morseTreeLevels
    /\ dec.morseTablePointer =
         Walk(morseTreetop, (morseTreetop + 1) \div 2, burst.syms)
    /\ dec.morseTableJumper =
         ((morseTreetop + 1) \div 2) \div (2 ^ Len(burst.syms))

\* the third decode() call of the silence after the third pulse of a
\* letter, a dot
C29_Witness ==
  /\ ~dec.morseSignalState
  /\ dec.gotLastSig
  /\ Len(burst.syms) = 3
  /\ burst.cur = "."
  /\ now - dec.spaceTime >= 3 * ShortStep
  /\ dec.morseTableJumper = 4

\* ------------------------------------------------------------------------
\* An encoder whose output pin is wired to the input pin of a decoder
\* (digital mode, active high), both run from one loop() every millisecond;
\* the loop reads every character the decoder has
\* ------------------------------------------------------------------------
\* the supported alphabet: every non-sentinel entry of the code table
Alphabet == { morseTable[i] : i \in 1..morseTableLength } \ { STAR }

InitLoop ==
  /\ dec = morseDecoder(FALSE, FALSE)
  /\ enc = morseEncoder
  /\ now = 0
  /\ pin = FALSE
  /\ key = FALSE
  /\ decArg = NoArg
  /\ encArg = NoArg
  /\ emits = << >>
  /\ rx = NoArg
  /\ lost = NUL
  /\ sent = NUL
  /\ run = NoRun
  /\ burst = NoBurst
  /\ pulse = NoPulse
  /\ tx = NoTx
  /\ trainer = NoTrainer
  /\ prefs = NoPrefs

\* both objects are set to the same speed before anything is sent
LoopSetSpeed ==
  /\ now = 0
  /\ decArg = NoArg
  /\ sent = NUL
  /\ \E v \in LoopSpeeds :
       /\ dec' = morseDecoder_setspeed(dec, v)
       /\ enc' = morseEncoder_setspeed(enc, v)
       /\ decArg' = v
       /\ encArg' = v
  /\ UNCHANGED <<now, pin, key, emits, rx, lost, sent, run, burst, pulse, tx, trainer, prefs>>

\* morseOutput.write(c), once
LoopWrite ==
  /\ sent = NUL
  /\ now <= LoopWriteBy
  /\ morseEncoder_available(enc)
  /\ \E c \in Alphabet :
       /\ enc' = morseEncoder_write(enc, c)
       /\ sent' = c
  /\ UNCHANGED <<dec, now, pin, key, decArg, encArg, emits, rx, lost, run, burst, pulse, tx, trainer, prefs>>

\* one pass of loop(): morseOutput.encode(); morseInput.decode();
\* if (morseInput.available()) morseInput.read();
LoopTick ==
  LET t  == now + 1
      r  == encode(enc, t, pin)
      dd == decode(dec, t, r.out, 0)
      e  == Emitted(dec, t, r.out, 0)
  IN /\ t <= LoopMaxTime
     /\ now' = t
     /\ enc' = r.e
     /\ pin' = r.out
     /\ key' = r.out
     /\ dec' = IF morseDecoder_available(dd) THEN morseDecoder_read(dd)
               ELSE dd
     /\ emits' = e
     /\ lost' = IF e # << >> THEN dec.decodedMorseChar ELSE NUL
     /\ rx' = IF morseDecoder_available(dd) THEN ReadValue(dd) ELSE NoArg
     /\ run' = RunAfter(run, dd, e)
     /\ UNCHANGED <<decArg, encArg, sent, burst, pulse, tx, trainer, prefs>>

NextLoop == LoopSetSpeed \/ LoopWrite \/ LoopTick

SpecLoop == InitLoop /\ [][NextLoop]_vars

\* C1: round trip.  For every character c of the supported alphabet,
\* writing c to the encoder and feeding its output tick by tick into a
\* decoder at the same speed makes the decoder emit c as its next letter.
C1_RoundTrip ==
  (sent # NUL /\ emits # << >> /\ emits[1] # SPACE) => emits[1] = sent

\* the same for every character but the underscore (95)
RoundTripButUnderscore ==
  (sent # NUL /\ sent # 95 /\ emits # << >> /\ emits[1] # SPACE)
     => emits[1] = sent

\* ------------------------------------------------------------------------
\* One pulse on the line of a decoder in either input mode, decode() called
\* every millisecond
\* ------------------------------------------------------------------------
\* decode() gets to the classification of the pulse: the clean signal is
\* off, the pulse is not classified yet, the tree is not exhausted and the
\* pause is longer than half a dot (d is the decoder after the front end)
Classifies(d, currentTime) ==
  /\ ~d.morseSignalState
  /\ ~d.gotLastSig
  /\ d.morseTableJumper > 0
  /\ (currentTime - d.spaceTime) > (d.dotTime \div 2)

\* what the classification did to the tree position
KindOf(d, currentTime) ==
  LET d2 == ClassifyPulse(d, currentTime)
  IN IF d2.morseTablePointer < d.morseTablePointer THEN "dot"
     ELSE IF d2.morseTablePointer > d.morseTablePointer THEN "dash"
     ELSE IF d2.morseTableJumper = d.morseTableJumper THEN "none"
     ELSE "other"

\* the boundary durations of the speed the decoder is set to
Boundaries(d) ==
  { d.dotTime \div 4 + 1, d.dashTime \div 2 - 1, d.dashTime \div 2 + 1,
    d.dashTime + d.dotTime + 1 }

\* the key is let go after a boundary duration, or one millisecond later
\* (the audio front end takes the last loud sample for the pulse's end)
ReleaseAfter(d) == Boundaries(d) \cup { b + 1 : b \in Boundaries(d) }

InitPulse ==
  /\ dec \in { morseDecoder(FALSE, TRUE), morseDecoder(TRUE, FALSE) }
  /\ enc = morseEncoder
  /\ now = 0
  /\ pin = FALSE
  /\ key = FALSE
  /\ decArg = NoArg
  /\ encArg = NoArg
  /\ emits = << >>
  /\ rx = NoArg
  /\ lost = NUL
  /\ sent = NUL
  /\ run = NoRun
  /\ burst = NoBurst
  /\ pulse = NoPulse
  /\ tx = NoTx
  /\ trainer = NoTrainer
  /\ prefs = NoPrefs

\* setspeed(v), before the first decode() or early in the pulse
PulseSetSpeed ==
  /\ \/ decArg = NoArg
     \/ key /\ now - pulse.downAt < ChangeWithin
  /\ \E v \in PulseSpeeds :
       /\ v # decArg
       /\ dec' = morseDecoder_setspeed(dec, v)
       /\ decArg' = v
  /\ UNCHANGED <<enc, now, pin, key, encArg, emits, rx, lost, sent, run, burst, pulse, tx, trainer, prefs>>

\* decode(); if (available()) read(); one millisecond after the last call,
\* the key down (a loud sample in audio mode) or up (a silent one)
PulseTick ==
  \E down \in BOOLEAN :
    LET t       == now + 1
        reading == IF dec.activeLow THEN ~down ELSE down
        audio   == IF down THEN 1023 ELSE 0
        d1      == FrontEnd(dec, t, reading, audio)
        dd      == decode(dec, t, reading, audio)
    IN /\ decArg # NoArg
       /\ t <= PulseMaxTime
       /\ down /\ ~key => pulse.downAt = 0 /\ t = PulseStart
       /\ ~down /\ key => (t - pulse.downAt) \in ReleaseAfter(dec)
       /\ now' = t
       /\ key' = down
       /\ dec' = IF morseDecoder_available(dd) THEN morseDecoder_read(dd)
                 ELSE dd
       /\ rx' = IF morseDecoder_available(dd) THEN ReadValue(dd) ELSE NoArg
       /\ emits' = Emitted(dec, t, reading, audio)
       /\ pulse' = [ pulse EXCEPT
            !.downAt = IF down /\ ~key THEN t ELSE @,
            !.d    = IF Classifies(d1, t) THEN d1.spaceTime - d1.markTime
                     ELSE @,
            !.dot  = IF Classifies(d1, t) THEN d1.dotTime ELSE @,
            !.dash = IF Classifies(d1, t) THEN d1.dashTime ELSE @,
            !.wpm  = IF Classifies(d1, t) THEN d1.wpm ELSE @,
            !.kind = IF Classifies(d1, t) THEN KindOf(d1, t) ELSE @ ]
       /\ UNCHANGED <<enc, pin, decArg, encArg, lost, sent, run, burst, tx, trainer, prefs>>

NextPulse == PulseSetSpeed \/ PulseTick

SpecPulse == InitPulse /\ [][NextPulse]_vars

\* C5: at every speed, a released pulse whose duration spaceTime - markTime
\* is dotTime/4 + 1 is classified as a dot, one of dashTime/2 - 1 as a dot,
\* one of dashTime/2 + 1 as a dash, and one of dashTime + dotTime + 1 as
\* neither (the tree position stays as it is); the pulse lasted a
\* millisecond at least.
C5_PulseBoundaries ==
  pulse.kind # "" /\ pulse.d >= 1 =>
    /\ pulse.d = pulse.dot \div 4 + 1 => pulse.kind = "dot"
    /\ pulse.d = pulse.dash \div 2 - 1 => pulse.kind = "dot"
    /\ pulse.d = pulse.dash \div 2 + 1 => pulse.kind = "dash"
    /\ pulse.d = pulse.dash + pulse.dot + 1 => pulse.kind = "none"

\* the same boundaries with the speed at most 900 wpm, where
\* dotTime/4 < dashTime/2 - 1
PulseBoundariesUpTo900 ==
  pulse.kind # "" /\ pulse.d >= 1 /\ pulse.wpm <= 900 =>
    /\ pulse.d = pulse.dot \div 4 + 1 => pulse.kind = "dot"
    /\ pulse.d = pulse.dash \div 2 - 1 => pulse.kind = "dot"
    /\ pulse.d = pulse.dash \div 2 + 1 => pulse.kind = "dash"
    /\ pulse.d = pulse.dash + pulse.dot + 1 => pulse.kind = "none"

\* C19: a released pulse of duration d with dotTime/4 <= d < dashTime/2 is
\* classified as a dot; a pulse below half a dash that is ignored has
\* d < dotTime/4; the pulse lasted a millisecond at least.
C19_DotFromQuarter ==
  pulse.kind # "" /\ pulse.d >= 1 =>
    /\ pulse.d >= pulse.dot \div 4 /\ pulse.d < pulse.dash \div 2 =>
         pulse.kind = "dot"
    /\ pulse.kind = "none" /\ pulse.d < pulse.dash \div 2 =>
         pulse.d < pulse.dot \div 4

\* C19 with the code's strict test: a released pulse of duration d with
\* dotTime/4 < d < dashTime/2 is classified as a dot, and every pulse with
\* d <= dotTime/4 is ignored (the tree position stays as it is).
C19_DotAboveQuarter ==
  pulse.kind # "" =>
    /\ pulse.d > pulse.dot \div 4 /\ pulse.d < pulse.dash \div 2 =>
         pulse.kind = "dot"
    /\ pulse.d <= pulse.dot \div 4 => pulse.kind = "none"

\* a pulse of exactly a quarter of a dot has been ignored
C19_Witness ==
  /\ pulse.kind = "none"
  /\ pulse.d = pulse.dot \div 4
  /\ pulse.d >= 1
  /\ dec.morseTablePointer = morseTreetop
  /\ dec.morseTableJumper = (morseTreetop + 1) \div 2
\* C30: as long as the clean signal has never been on (markTime is still
\* 0 and morseSignalState false) a constructed decoder has stored nothing:
\* no decode() call stores a character, available() is false and nothing
\* has been read, however long the silence, in either input mode and
\* whatever the speed.
C30_FreshSilent ==
  dec.markTime = 0 /\ ~dec.morseSignalState =>
    /\ emits = << >>
    /\ ~morseDecoder_available(dec)
    /\ rx = NoArg

\* silence for longer than two thirds of a word space from construction
C30_Witness ==
  /\ dec.markTime = 0
  /\ ~dec.morseSignalState
  /\ ~key
  /\ decArg = 13
  /\ now > (dec.wordSpace * 2) \div 3
  /\ now > PulseStart
\* ------------------------------------------------------------------------
\* An encoder written to while loop() calls encode() every few ms
\* ------------------------------------------------------------------------
\* the characters of the code table
InTable(c) == c # STAR /\ \E i \in 1..morseTableLength : morseTable[i] = c

InitSend ==
  /\ dec = morseDecoder(FALSE, FALSE)
  /\ enc = morseEncoder
  /\ now = 0
  /\ pin = FALSE
  /\ key = FALSE
  /\ decArg = NoArg
  /\ encArg = NoArg
  /\ emits = << >>
  /\ rx = NoArg
  /\ lost = NUL
  /\ sent = NUL
  /\ run = NoRun
  /\ burst = NoBurst
  /\ pulse = NoPulse
  /\ tx = NoTx
  /\ trainer = NoTrainer
  /\ prefs = NoPrefs

\* morseOutput.setspeed(v)
SendSetSpeed ==
  \E v \in SendSpeeds :
    /\ tx.sets < MaxSets
    /\ v # encArg
    /\ enc' = morseEncoder_setspeed(enc, v)
    /\ encArg' = v
    /\ tx' = [ tx EXCEPT !.op = "setspeed", !.sets = @ + 1 ]
    /\ UNCHANGED <<dec, now, pin, key, decArg, emits, rx, lost, sent, run, burst, pulse, trainer, prefs>>

\* morseOutput.write(c)
SendWrite ==
  \E c \in SendChars :
    /\ tx.writes < MaxWrites
    /\ enc' = morseEncoder_write(enc, c)
    /\ sent' = c
    /\ tx' = [ tx EXCEPT !.op = "write", !.writes = @ + 1,
                         !.char = IF ~enc.sendingMorse /\ c # STAR
                                  THEN c ELSE @ ]
    /\ UNCHANGED <<dec, now, pin, key, decArg, encArg, emits, rx, lost, run, burst, pulse, trainer, prefs>>

\* the time the symbol the encoder is on has to last
NeedOf(e) ==
  CASE CurrentSignal(e) = "." -> e.dotTime
    [] CurrentSignal(e) = "-" -> e.dashTime
    [] CurrentSignal(e) = "x" ->
         IF e.sendingMorseSignalNr < e.morseSignals - 1
         THEN e.dotTime ELSE e.dashTime
    [] OTHER -> e.wordSpace - e.dashTime

\* one pass of loop(): morseOutput.encode();
SendTick ==
  \E dt \in SendSteps :
  LET t  == now + dt
      s1 == StartSending(enc, t, pin)
      r  == encode(enc, t, pin)
      ended == s1.e.sendingMorse /\ ~r.e.sendingMorse
  IN /\ t <= SendMaxTime
     /\ now' = t
     /\ enc' = r.e
     /\ pin' = r.out
     /\ tx' = [ tx EXCEPT
          !.op        = "encode",
          !.upAt      = IF ~pin /\ r.out THEN t ELSE @,
          !.dur       = IF ~pin /\ r.out THEN NeedOf(r.e) ELSE @,
          !.fellAfter = IF ~pin /\ r.out THEN 0 - 1
                        ELSE IF pin /\ ~r.out THEN t - tx.upAt ELSE @,
          !.doneAfter = IF ended THEN t - s1.e.sendMorseTimer ELSE @,
          !.doneSym   = IF ended THEN CurrentSignal(s1.e) ELSE @,
          !.doneNeed  = IF ended THEN NeedOf(s1.e) ELSE @ ]
     /\ UNCHANGED <<dec, key, decArg, encArg, emits, rx, lost, sent, run, burst, pulse, trainer, prefs>>

NextSend == SendSetSpeed \/ SendWrite \/ SendTick

SpecSend == InitSend /\ [][NextSend]_vars
\* C12 as stated: a pulse is dropped at the first encode() call at which
\* the duration in effect when it was asserted has elapsed, whatever
\* setspeed() did in between.
C12_NotRetroactive ==
  tx.fellAfter # 0 - 1 =>
    /\ tx.fellAfter >= tx.dur
    /\ \E dt \in SendSteps : tx.fellAfter - dt < tx.dur

\* C13: a write() while a transmission is in progress, or of '*', changes
\* nothing of the encoder and of its output; any other write() only sets
\* the pending character.
C13_WriteIgnored ==
  [][ tx'.writes # tx.writes =>
        /\ pin' = pin
        /\ enc' = IF enc.sendingMorse \/ sent' = STAR THEN enc
                  ELSE [ enc EXCEPT !.encodeMorseChar = sent' ] ]_vars

\* a ']' or '_' written during a transmission of another character
C13_Witness ==
  /\ tx.op = "write"
  /\ enc.sendingMorse
  /\ sent \in {93, 95}
  /\ tx.char \notin {93, 95}

\* C14 as stated: for a written character that is not in the code table the
\* output is never asserted.
C14_UnmappedDropped ==
  enc.sendingMorse /\ ~InTable(tx.char) => ~pin

\* the same for the characters that are not in the code table after
\* encode() has changed them
UnmappedAfterChange ==
  enc.sendingMorse /\ ~InTable(enc.encodeMorseChar) => ~pin

\* C15 as stated: the character being transmitted is the one written,
\* unless that is a lowercase letter: then it is its uppercase letter.
C15_OnlyLowercase ==
  enc.sendingMorse =>
    enc.encodeMorseChar =
      IF tx.char \in 97..122 THEN tx.char - 32 ELSE tx.char

\* the 1-based positions of the table that hold c
Positions(c) == { i \in 1..Len(morseTable) : morseTable[i] = c }

\* the positions whose character the table holds at another position too
Repeated ==
  { i \in 1..Len(morseTable) :
      \E j \in 1..Len(morseTable) : j # i /\ morseTable[j] = morseTable[i] }

\* 127 entries, a complete tree of depth 6 with ' ' at its root
TableShape ==
  /\ Len(morseTable) = 127
  /\ morseTableLength = 127
  /\ morseTableLength = 2 ^ (morseTreeLevels + 1) - 1
  /\ morseTreetop + 1 = 64
  /\ morseTable[morseTreetop + 1] = SPACE

\* C16 as stated: 127 entries, a complete tree of depth 6 with the word
\* space at its root (1-based position 64), every character other than '*'
\* at exactly one position; the decoder's position is one of the table.
C16_TableInvariant ==
  /\ dec.morseTablePointer \in 0..(Len(morseTable) - 1)
  /\ TableShape
  /\ Repeated = Positions(STAR)

\* C16 amended: 127 entries, a complete tree of depth 6 with the word space
\* at its root (1-based position 64), every character other than '*' and
\* '!' at exactly one position, '!' at the two positions 87 and 116.
C16_TableButBang ==
  /\ dec.morseTablePointer \in 0..(Len(morseTable) - 1)
  /\ TableShape
  /\ Positions(33) = {87, 116}
  /\ Repeated = Positions(STAR) \cup Positions(33)

\* the encoder sends the '!' of position 87: -.-.--
C16_Witness ==
  /\ enc.sendingMorse
  /\ enc.encodeMorseChar = 33
  /\ ScanTable(33) + 1 = 87
  /\ Len(enc.morseSignalString) = 6
  /\ pin

\* C17 as stated: while ' ' is transmitted the output is off, and the
\* transmission is over at the encode() call at which wordSpace - dashTime
\* has elapsed since it started.
C17_SpaceGap ==
  enc.sendingMorse /\ tx.char = SPACE /\ tx.op = "encode" =>
    /\ ~pin
    /\ now - enc.sendMorseTimer < enc.wordSpace - enc.dashTime

\* C17 amended: while ' ' is transmitted the output is off, and the
\* transmission is over at the first encode() call at which more than
\* wordSpace - dashTime has elapsed since it started.
C17_SpaceGapMore ==
  /\ enc.sendingMorse /\ tx.char = SPACE /\ tx.op = "encode" =>
       /\ ~pin
       /\ now - enc.sendMorseTimer <= enc.wordSpace - enc.dashTime
  /\ tx.doneSym = " " => tx.doneAfter > tx.doneNeed

\* a ' ' whose transmission went on at the encode() call wordSpace -
\* dashTime after its start and ended at the next one
C17_Witness ==
  /\ tx.char = SPACE
  /\ tx.doneSym = " "
  /\ ~enc.sendingMorse
  /\ tx.op = "encode"
  /\ tx.doneAfter - tx.doneNeed \in SendSteps
\* ------------------------------------------------------------------------
\* An encoder and a decoder on its output pin (digital mode, active high)
\* in one loop(), each set to speeds of its own
\* ------------------------------------------------------------------------
\* the four speed parameters of an object
SpeedOf(o) == << o.wpm, o.dotTime, o.dashTime, o.wordSpace >>

InitBoth == InitSend

\* a setspeed() of the encoder that writes the decoder's parameters as well
BothEncSetSpeed_Shared ==
  \E v \in SendSpeeds :
    /\ tx.sets < MaxSets
    /\ v # encArg
    /\ enc' = morseEncoder_setspeed(enc, v)
    /\ dec' = morseDecoder_setspeed(dec, v)
    /\ encArg' = v
    /\ tx' = [ tx EXCEPT !.op = "setspeed", !.sets = @ + 1 ]
    /\ UNCHANGED <<now, pin, key, decArg, emits, rx, lost, sent, run, burst, pulse, trainer, prefs>>

\* morseOutput.setspeed(v)
BothEncSetSpeed ==
  \E v \in SendSpeeds :
    /\ tx.sets < MaxSets
    /\ v # encArg
    /\ enc' = morseEncoder_setspeed(enc, v)
    /\ encArg' = v
    /\ tx' = [ tx EXCEPT !.op = "setspeed", !.sets = @ + 1 ]
    /\ UNCHANGED <<dec, now, pin, key, decArg, emits, rx, lost, sent, run, burst, pulse, trainer, prefs>>

\* morseInput.setspeed(v)
BothDecSetSpeed ==
  \E v \in SendSpeeds :
    /\ tx.sets < MaxSets
    /\ v # decArg
    /\ dec' = morseDecoder_setspeed(dec, v)
    /\ decArg' = v
    /\ tx' = [ tx EXCEPT !.op = "setspeed", !.sets = @ + 1 ]
    /\ UNCHANGED <<enc, now, pin, key, encArg, emits, rx, lost, sent, run, burst, pulse, trainer, prefs>>

\* morseOutput.write(c), once
BothWrite ==
  \E c \in BothChars :
    /\ sent = NUL
    /\ enc' = morseEncoder_write(enc, c)
    /\ sent' = c
    /\ tx' = [ tx EXCEPT !.op = "write", !.char = c ]
    /\ UNCHANGED <<dec, now, pin, key, decArg, encArg, emits, rx, lost, run, burst, pulse, trainer, prefs>>

\* one pass of loop(): morseOutput.encode(); morseInput.decode();
\* if (morseInput.available()) morseInput.read();
BothTick ==
  \E dt \in BothSteps :
  LET t  == now + dt
      r  == encode(enc, t, pin)
      dd == decode(dec, t, r.out, 0)
  IN /\ t <= BothMaxTime
     /\ now' = t
     /\ enc' = r.e
     /\ pin' = r.out
     /\ key' = r.out
     /\ dec' = IF morseDecoder_available(dd) THEN morseDecoder_read(dd)
               ELSE dd
     /\ emits' = Emitted(dec, t, r.out, 0)
     /\ rx' = IF morseDecoder_available(dd) THEN ReadValue(dd) ELSE NoArg
     /\ tx' = [ tx EXCEPT !.op = "encode" ]
     /\ UNCHANGED <<decArg, encArg, lost, sent, run, burst, pulse, trainer, prefs>>

NextBoth == BothEncSetSpeed \/ BothDecSetSpeed \/ BothWrite \/ BothTick

SpecBoth == InitBoth /\ [][NextBoth]_vars

\* C11: setspeed() on the encoder leaves the decoder's wpm, dotTime,
\* dashTime and wordSpace as they are, setspeed() on the decoder leaves the
\* encoder's, and no other step (encode(), decode(), read(), write())
\* changes any of them.
C11_SpeedIsolation ==
  [][ /\ encArg' # encArg => SpeedOf(dec') = SpeedOf(dec)
      /\ decArg' # decArg => SpeedOf(enc') = SpeedOf(enc)
      /\ encArg' = encArg => SpeedOf(enc') = SpeedOf(enc)
      /\ decArg' = decArg => SpeedOf(dec') = SpeedOf(dec) ]_vars

\* both objects at work, each at the speed it was set to, the two differing
C11_Witness ==
  /\ encArg # NoArg
  /\ decArg # NoArg
  /\ encArg # decArg
  /\ enc.sendingMorse
  /\ dec.morseSignalState
  /\ enc.wpm = encArg
  /\ dec.wpm = decArg
\* ------------------------------------------------------------------------
\* morse_trainer(): rounds of sending a group and checking what comes back
\* ------------------------------------------------------------------------
InitTrainer ==
  /\ dec = morseDecoder(FALSE, TRUE)
  /\ enc = morseEncoder
  /\ now = 0
  /\ pin = FALSE
  /\ key = FALSE
  /\ decArg = NoArg
  /\ encArg = NoArg
  /\ emits = << >>
  /\ rx = NoArg
  /\ lost = NUL
  /\ sent = NUL
  /\ run = NoRun
  /\ burst = NoBurst
  /\ pulse = NoPulse
  /\ tx = NoTx
  /\ trainer \in { [ NoTrainer EXCEPT !.n = g ] : g \in TrainerGroups }
  /\ prefs = [ SetAll(NoPrefs, Defaults) EXCEPT ![GROUP_NUM] = trainer.n ]

\* a send loop that draws new characters in every round
TrainerSend_AlwaysNew ==
  /\ trainer.phase \in {"init", "end"}
  /\ trainer.rounds < MaxRounds
  /\ \E group \in [ 1..trainer.n -> TrainerChars ] :
       trainer' = [ trainer EXCEPT
         !.phase  = "check",
         !.cw_tx  = group,
         !.drawn  = TRUE,
         !.error  = FALSE,
         !.rx_cnt = 0,
         !.got    = << >>,
         !.before = trainer.cw_tx,
         !.erred  = trainer.error,
         !.rounds = @ + 1 ]
  /\ dec' = morseDecoder_setspeed(dec, 25)
  /\ decArg' = 25
  /\ UNCHANGED <<enc, now, pin, key, encArg, emits, rx, lost, sent, run, burst, pulse, tx, prefs>>

\* the send loop of a round, up to the top of the check loop:
\* if (!error) cw_tx[i] = ch_buf[random(lo, hi)]; morse.send(cw_tx[i]);
\* then error = false; rx_cnt = 0; morseInput.setspeed(prefs[KEY_SPEED])
TrainerSend ==
  /\ trainer.phase \in {"init", "end"}
  /\ trainer.rounds < MaxRounds
  /\ \E group \in [ 1..trainer.n -> TrainerChars ] :
       trainer' = [ trainer EXCEPT
         !.phase  = "check",
         !.cw_tx  = IF ~trainer.error THEN group ELSE @,
         !.drawn  = ~trainer.error,
         !.error  = FALSE,
         !.rx_cnt = 0,
         !.got    = << >>,
         !.before = trainer.cw_tx,
         !.erred  = trainer.error,
         !.rounds = @ + 1 ]
  /\ dec' = morseDecoder_setspeed(dec, 25)
  /\ decArg' = 25
  /\ UNCHANGED <<enc, now, pin, key, encArg, emits, rx, lost, sent, run, burst, pulse, tx, prefs>>

\* one pass of the check loop; c is what decode(), available() and read()
\* deliver in this pass (NoArg: nothing available), buttons is readButtons()
TrainerCheck ==
  \E c \in TrainerRx \cup {NoArg}, buttons \in BOOLEAN :
    LET counted == c # NoArg /\ c # SPACE
        wrong   == counted /\ c # trainer.cw_tx[trainer.rx_cnt + 1]
        error   == trainer.error \/ wrong
        rx_cnt  == IF counted THEN trainer.rx_cnt + 1 ELSE trainer.rx_cnt
    IN /\ trainer.phase = "check"
       /\ rx' = c
       /\ trainer' = [ trainer EXCEPT
            !.error  = error,
            !.rx_cnt = rx_cnt,
            !.got    = IF counted THEN Append(@, c) ELSE @,
            !.phase  = IF buttons THEN "exit"
                       ELSE IF rx_cnt < trainer.n /\ ~error THEN "check"
                       ELSE "end" ]
       /\ UNCHANGED <<dec, enc, now, pin, key, decArg, encArg, emits, lost, sent, run, burst, pulse, tx, prefs>>

NextTrainer == TrainerSend \/ TrainerCheck

SpecTrainer == InitTrainer /\ [][NextTrainer]_vars

\* C18: a round in which every character received (other than ' ') was the
\* one sent ends without error and the next round sends newly drawn
\* characters; a round in which a received character differed ends with
\* error and the next round sends the same group again.
C18_TrainerRounds ==
  /\ trainer.phase = "end" =>
       /\ trainer.error <=>
            \E i \in 1..Len(trainer.got) : trainer.got[i] # trainer.cw_tx[i]
       /\ ~trainer.error => trainer.got = trainer.cw_tx
  /\ trainer.rounds >= 2 =>
       /\ trainer.erred => trainer.cw_tx = trainer.before /\ ~trainer.drawn
       /\ ~trainer.erred => trainer.drawn
  /\ trainer.rounds >= 1 =>
       trainer.cw_tx \in [ 1..trainer.n -> TrainerChars ]

\* a group sent again after an error and then answered without one
C18_Witness ==
  /\ trainer.rounds = 2
  /\ trainer.erred
  /\ trainer.cw_tx = trainer.before
  /\ trainer.phase = "end"
  /\ ~trainer.error
  /\ trainer.n = 2
\* ------------------------------------------------------------------------
\* An audio decoder at the speed it is constructed with (13 wpm), decode()
\* called every 40 ms on a line that is loud or silent: one loud sample is
\* a pulse of 0 ms, two to four are a dot, five to ten a dash, two silent
\* ones end a pulse
\* ------------------------------------------------------------------------
InitNoise ==
  /\ dec = morseDecoder(TRUE, FALSE)
  /\ enc = morseEncoder
  /\ now = 0
  /\ pin = FALSE
  /\ key = FALSE
  /\ decArg = NoArg
  /\ encArg = NoArg
  /\ emits = << >>
  /\ rx = NoArg
  /\ lost = NUL
  /\ sent = NUL
  /\ run = NoRun
  /\ burst = NoBurst
  /\ pulse = NoPulse
  /\ tx = NoTx
  /\ trainer = NoTrainer
  /\ prefs = NoPrefs

\* decode(); if (available()) read(); with a loud or a silent sample
NoiseTick ==
  \E dt \in NoiseSteps, loud \in BOOLEAN :
    LET t     == now + dt
        audio == IF loud THEN 1023 ELSE 0
        dd    == decode(dec, t, loud, audio)
    IN /\ t <= NoiseMaxTime
       /\ now' = t
       /\ key' = loud
       /\ dec' = IF morseDecoder_available(dd) THEN morseDecoder_read(dd)
                 ELSE dd
       /\ rx' = IF morseDecoder_available(dd) THEN ReadValue(dd) ELSE NoArg
       /\ emits' = Emitted(dec, t, loud, audio)
       /\ UNCHANGED <<enc, pin, decArg, encArg, lost, sent, run, burst, pulse, tx, trainer, prefs>>

NextNoise == NoiseTick

SpecNoise == InitNoise /\ [][NextNoise]_vars

\* after the front end of a decode() call the signal is off and the pulse
\* that ended, shorter than a quarter of a dot, is not classified yet
NoisePending(d) ==
  /\ ~d.morseSignalState
  /\ ~d.gotLastSig
  /\ (d.spaceTime - d.markTime) < (d.dotTime \div 4)

\* C20: a decode() call that finds an unclassified pulse shorter than
\* dotTime/4 stores no error mark and, unless a letter or a space is due
\* in the same call, leaves morseTablePointer and morseTableJumper as they
\* are, whatever the tree position (morseTableJumper = 0 included).
C20_NoiseIgnored ==
  [][ LET d1 == FrontEnd(dec, now', key', IF key' THEN 1023 ELSE 0)
      IN now' # now /\ NoisePending(d1) =>
           /\ \A i \in 1..Len(emits') : emits'[i] # HASH
           /\ emits' = << >> =>
                /\ dec'.morseTablePointer = dec.morseTablePointer
                /\ dec'.morseTableJumper = dec.morseTableJumper ]_vars

\* the same with the tree not exhausted (morseTableJumper > 0)
NoiseIgnoredInTree ==
  [][ LET d1 == FrontEnd(dec, now', key', IF key' THEN 1023 ELSE 0)
      IN now' # now /\ NoisePending(d1) /\ dec.morseTableJumper > 0 =>
           /\ \A i \in 1..Len(emits') : emits'[i] # HASH
           /\ emits' = << >> =>
                /\ dec'.morseTablePointer = dec.morseTablePointer
                /\ dec'.morseTableJumper = dec.morseTableJumper ]_vars

\* a pulse of 0 ms was left unclassified with three pulses in the tree
NoiseInTreeSeen ==
  /\ ~dec.morseSignalState
  /\ ~dec.gotLastSig
  /\ dec.spaceTime = dec.markTime
  /\ dec.morseTableJumper = 4
\* ------------------------------------------------------------------------
\* The trainer's check loop with the key speed set to 24 wpm (dotTime 50)
\* ------------------------------------------------------------------------
InitLetter == InitKey

LetterSetSpeed ==
  /\ now = 0
  /\ decArg = NoArg
  /\ \E v \in LetterSpeeds :
       /\ dec' = morseDecoder_setspeed(dec, v)
       /\ decArg' = v
  /\ UNCHANGED <<enc, now, pin, key, encArg, emits, rx, lost, sent, run, burst, pulse, tx, trainer, prefs>>

LetterTick == KeyTick

LetterRead == KeyRead

NextLetter == LetterSetSpeed \/ LetterTick \/ LetterRead

SpecLetter == InitLetter /\ [][NextLetter]_vars

\* the characters other than '#' and ' ' among those a decode() call stored
Letters(e) == { e[i] : i \in 1..Len(e) } \ { HASH, SPACE }

\* the decoder is at the top of the tree
AtTreetop(d) ==
  /\ d.morseTablePointer = morseTreetop
  /\ d.morseTableJumper = (morseTreetop + 1) \div 2

C22_TimesAtEdges ==
  [][ now' # now /\ ~dec.morseAudio =>
      /\ dec'.morseSignalState = dec.morseSignalState =>
           /\ dec'.markTime = dec.markTime
           /\ dec'.spaceTime = dec.spaceTime
      /\ ~dec.morseSignalState /\ dec'.morseSignalState =>
           dec'.spaceTime = dec.spaceTime
      /\ dec.morseSignalState /\ ~dec'.morseSignalState =>
           dec'.markTime = dec.markTime ]_vars

\* the same for the calls before which the raw input had already been
\* where it is for longer than debounceDelay (no chatter)
TimesAtEdgesNoChatter ==
  [][ now' # now /\ ~dec.morseAudio
      /\ dec'.lastDebounceTime = dec.lastDebounceTime
      /\ now - dec.lastDebounceTime > dec.debounceDelay
      /\ dec'.morseSignalState = dec.morseSignalState =>
           /\ dec'.markTime = dec.markTime
           /\ dec'.spaceTime = dec.spaceTime ]_vars
\* ------------------------------------------------------------------------
\* An encoder sending whole letters: setspeed, write, then encode() from
\* loop() every 20 ms
\* ------------------------------------------------------------------------
InitPlan == InitSend

\* morseOutput.setspeed(v) before anything is written
PlanSetSpeed ==
  /\ now = 0
  /\ encArg = NoArg
  /\ \E v \in PlanSpeeds :
       /\ enc' = morseEncoder_setspeed(enc, v)
       /\ encArg' = v
  /\ tx' = [ tx EXCEPT !.op = "setspeed" ]
  /\ UNCHANGED <<dec, now, pin, key, decArg, emits, rx, lost, sent, run, burst, pulse, trainer, prefs>>

\* morseOutput.write(c)
PlanWrite ==
  /\ encArg # NoArg
  /\ tx.writes < PlanWrites
  /\ now <= PlanWriteBy
  /\ tx.writes = 0 => now = 0
  /\ \E c \in IF tx.writes = 0 THEN Alphabet ELSE PlanNext :
       /\ enc' = morseEncoder_write(enc, c)
       /\ sent' = c
       /\ tx' = [ tx EXCEPT !.op = "write", !.writes = @ + 1,
                            !.char = IF ~enc.sendingMorse /\ c # STAR
                                     THEN c ELSE @,
                            !.over = IF ~enc.sendingMorse /\ c # STAR
                                     THEN enc.encodeMorseChar ELSE @ ]
  /\ UNCHANGED <<dec, now, pin, key, decArg, encArg, emits, rx, lost, run, burst, pulse, trainer, prefs>>

\* one pass of loop(): morseOutput.encode();
PlanTick ==
  \E dt \in PlanSteps :
  LET t  == now + dt
      s1 == StartSending(enc, t, pin)
      r  == encode(enc, t, pin)
      ended == s1.e.sendingMorse /\ ~r.e.sendingMorse
  IN /\ encArg # NoArg
     /\ t <= PlanMaxTime
     /\ now' = t
     /\ enc' = r.e
     /\ pin' = r.out
     /\ tx' = [ tx EXCEPT
          !.op        = "encode",
          !.upAt      = IF ~pin /\ r.out THEN t ELSE @,
          !.dur       = IF ~pin /\ r.out THEN NeedOf(r.e) ELSE @,
          !.fellAfter = IF ~pin /\ r.out THEN 0 - 1
                        ELSE IF pin /\ ~r.out THEN t - tx.upAt ELSE @,
          !.doneAfter = IF ended THEN t - s1.e.sendMorseTimer ELSE @,
          !.doneSym   = IF ended THEN CurrentSignal(s1.e) ELSE @,
          !.doneNeed  = IF ended THEN NeedOf(s1.e) ELSE @ ]
     /\ UNCHANGED <<dec, key, decArg, encArg, emits, rx, lost, sent, run, burst, pulse, trainer, prefs>>

NextPlan == PlanSetSpeed \/ PlanWrite \/ PlanTick

SpecPlan == InitPlan /\ [][NextPlan]_vars

\* the signal string the encoder builds for the 1-based table position pos
PathOf(pos) ==
  LET level == StartLevel(pos)
  IN IF morseTreeLevels - level > 0
     THEN TracePath(pos, level, << >>)
     ELSE << " " >>

\* the dot / dash sequences of one to morseTreeLevels signals
Sequences6 ==
  UNION { [ 1..n -> { ".", "-" } ] : n \in 1..morseTreeLevels }

\* the signal string of every position but the tree top is the one
\* sequence that leads the decoder from the tree top to that position
PathsAgree ==
  \A p \in 1..morseTableLength :
    p # morseTreetop + 1 =>
      /\ PathOf(p) \in Sequences6
      /\ \A w \in Sequences6 :
           Walk(morseTreetop, (morseTreetop + 1) \div 2, w) + 1 = p
             <=> w = PathOf(p)

\* C23: for every table position p in 1..127 other than the tree top 64
\* the encoder's signal string is the one dot / dash sequence of 1 to 6
\* signals that the decoder's walk from the tree top (dot: pointer - jumper,
\* dash: pointer + jumper, jumper halved from 32) ends at p with; for the
\* tree top it is the single word space; and the string an encoder is
\* sending is the one of the first position holding its character.
C23_ReversePath ==
  /\ (enc.sendingMorse /\ enc.sendingMorseSignalNr = 0
        /\ CurrentSignal(enc) # "x") =>
       enc.morseSignalString = PathOf(ScanTable(enc.encodeMorseChar) + 1)
  /\ PathsAgree
  /\ PathOf(morseTreetop + 1) = << " " >>

\* a letter of six signals is being sent with the string that walks the
\* decoder to the letter's position
C23_Witness ==
  /\ enc.sendingMorse
  /\ pin
  /\ enc.sendingMorseSignalNr = 0
  /\ Len(enc.morseSignalString) = morseTreeLevels
  /\ enc.morseSignalString \in Sequences6
  /\ Walk(morseTreetop, (morseTreetop + 1) \div 2, enc.morseSignalString)
       = ScanTable(enc.encodeMorseChar)
\* C24: the encode() call that starts a transmission raises the output if
\* and only if the first signal of the string is a dot or a dash; while a
\* dot (dash) is being sent the output is high, and an encode() call leaves
\* it high as long as less than dotTime (dashTime) has passed since the
\* call that raised it and drops it otherwise.
C24_MarkTiming ==
  [][ now' # now =>
      /\ ~enc.sendingMorse /\ enc.encodeMorseChar # NUL =>
           (pin' <=> PathOf(ScanTable(ToCapital(enc.encodeMorseChar)) + 1)[1]
                       \in { ".", "-" })
      /\ enc.sendingMorse /\ CurrentSignal(enc) = "." =>
           /\ pin
           /\ pin' <=> (now' - tx.upAt) < enc.dotTime
      /\ enc.sendingMorse /\ CurrentSignal(enc) = "-" =>
           /\ pin
           /\ pin' <=> (now' - tx.upAt) < enc.dashTime ]_vars

\* a dot was dropped by the call made exactly dotTime after the one that
\* raised the output, and a dash of the same letter exactly dashTime after
C24_Witness ==
  /\ tx.op = "encode"
  /\ ~pin
  /\ tx.fellAfter = enc.dashTime
  /\ enc.sendingMorse
  /\ enc.sendingMorseSignalNr = 1
  /\ enc.morseSignals = 2
  /\ now = tx.upAt + tx.fellAfter

\* C25: after a signal's drop with more signals to come the output stays
\* low until the first encode() call at least dotTime after the drop, which
\* raises it for the next signal; after the drop of the last signal the
\* output stays low and the transmission goes on until the first encode()
\* call at least dashTime after the drop, which ends it.
C25_GapTiming ==
  [][ now' # now /\ enc.sendingMorse /\ CurrentSignal(enc) = "x" =>
      LET since == now' - (tx.upAt + tx.fellAfter)
      IN /\ ~pin
         /\ tx.fellAfter # 0 - 1
         /\ IF enc.sendingMorseSignalNr < enc.morseSignals - 1
            THEN /\ pin' <=> since >= enc.dotTime
                 /\ enc'.sendingMorse
                 /\ enc'.sendingMorseSignalNr =
                      IF pin' THEN enc.sendingMorseSignalNr + 1
                      ELSE enc.sendingMorseSignalNr
            ELSE /\ ~pin'
                 /\ enc'.sendingMorse <=> since < enc.dashTime ]_vars

\* a letter of three signals has ended exactly dashTime after the drop of
\* its last signal
C25_Witness ==
  /\ tx.op = "encode"
  /\ ~enc.sendingMorse
  /\ enc.morseSignals = 3
  /\ tx.doneSym = "x"
  /\ tx.doneAfter = enc.dashTime
  /\ now = tx.upAt + tx.fellAfter + enc.dashTime
  /\ ~pin
\* the clock step of PlanTick: millis() as the next encode() call reads it
PlanClock ==
  \E dt \in PlanSteps :
    /\ encArg # NoArg
    /\ now + dt <= PlanMaxTime
    /\ now' = now + dt

\* encode() keeps being called: the steps of SpecPlan that move the clock
\* are those of PlanTick, which is enabled when PlanClock is
SpecPlanLive == SpecPlan /\ WF_now(PlanClock)

\* C26: with encode() called again and again every transmission that
\* starts ends; the call that ends it clears sendingMorse and
\* encodeMorseChar; a character pending in an idle encoder is started by
\* the next encode() call.
C26_Completion ==
  /\ [][ now' # now =>
         /\ enc.sendingMorse /\ ~enc'.sendingMorse =>
              enc'.encodeMorseChar = NUL
         /\ ~enc.sendingMorse /\ enc.encodeMorseChar # NUL =>
              /\ enc'.sendingMorse
              /\ enc'.sendMorseTimer = now'
              /\ enc'.encodeMorseChar = ToCapital(enc.encodeMorseChar)
         /\ ~enc.sendingMorse /\ enc.encodeMorseChar = NUL =>
              ~enc'.sendingMorse ]_vars
  /\ enc.sendingMorse ~> ~enc.sendingMorse

\* a character written after a transmission had ended is being sent
C26_Witness ==
  /\ tx.writes = 2
  /\ tx.doneAfter # 0 - 1
  /\ enc.sendingMorse
  /\ enc.encodeMorseChar = sent
  /\ enc.sendMorseTimer > tx.upAt + tx.fellAfter
  /\ tx.op = "encode"
\* ------------------------------------------------------------------------
\* An audio decoder at 25 wpm fed samples around AudioThreshold; key holds
\* the sample analogRead() returned at the last decode()
\* ------------------------------------------------------------------------
InitAudio == InitNoise

AudioSetSpeed ==
  /\ now = 0
  /\ decArg = NoArg
  /\ \E v \in AudioSpeeds :
       /\ dec' = morseDecoder_setspeed(dec, v)
       /\ decArg' = v
  /\ UNCHANGED <<enc, now, pin, key, encArg, emits, rx, lost, sent, run, burst, pulse, tx, trainer, prefs>>

\* decode(); if (available()) read(); with the sample audioSignal
AudioTick ==
  \E dt \in AudioSteps, audioSignal \in AudioLevels :
    LET t  == now + dt
        dd == decode(dec, t, FALSE, audioSignal)
    IN /\ decArg # NoArg
       /\ t <= AudioMaxTime
       /\ now' = t
       /\ key' = audioSignal
       /\ dec' = IF morseDecoder_available(dd) THEN morseDecoder_read(dd)
                 ELSE dd
       /\ rx' = IF morseDecoder_available(dd) THEN ReadValue(dd) ELSE NoArg
       /\ emits' = Emitted(dec, t, FALSE, audioSignal)
       /\ UNCHANGED <<enc, pin, decArg, encArg, lost, sent, run, burst, pulse, tx, trainer, prefs>>

NextAudio == AudioSetSpeed \/ AudioTick

SpecAudio == InitAudio /\ [][NextAudio]_vars

\* C27: lastDebounceTime is the time of the last sample above
\* AudioThreshold; with morseSignalState true a sample at or below the
\* threshold leaves morseSignalState and spaceTime alone while no more than
\* dotTime/2 has passed since that time, and otherwise clears
\* morseSignalState and sets spaceTime to that time; markTime is set, to
\* the time of the call, exactly by a sample above the threshold that comes
\* more than dotTime/2 after the last one.
C27_AudioFrontEnd ==
  [][ now' # now =>
      LET above == key' > dec.AudioThreshold
          since == now' - dec.lastDebounceTime
          late  == since > dec.dotTime \div 2
      IN /\ dec'.lastDebounceTime =
              IF above THEN now' ELSE dec.lastDebounceTime
         /\ dec.morseSignalState /\ ~above /\ ~late =>
              /\ dec'.morseSignalState
              /\ dec'.spaceTime = dec.spaceTime
         /\ dec.morseSignalState /\ ~above /\ late =>
              /\ ~dec'.morseSignalState
              /\ dec'.spaceTime = dec.lastDebounceTime
         /\ ~dec.morseSignalState /\ ~above =>
              /\ ~dec'.morseSignalState
              /\ dec'.spaceTime = dec.spaceTime
         /\ above /\ late =>
              /\ dec'.morseSignalState
              /\ dec'.markTime = now'
         /\ ~(above /\ late) => dec'.markTime = dec.markTime
         /\ above /\ ~late =>
              dec'.morseSignalState = dec.morseSignalState ]_vars

\* a signal of several samples has just been taken for ended, by a sample
\* at the threshold, and its end put at the last sample above it
C27_Witness ==
  /\ ~dec.morseSignalState
  /\ ~dec.gotLastSig
  /\ key = dec.AudioThreshold
  /\ dec.spaceTime = dec.lastDebounceTime
  /\ dec.spaceTime > dec.markTime
  /\ dec.markTime > 0
  /\ now - dec.lastDebounceTime > dec.dotTime \div 2
\* ------------------------------------------------------------------------
\* An audio decoder on a line that is loud or silent at every decode(),
\* its speed changed at any time, its character read or left
\* ------------------------------------------------------------------------
InitPointer == InitNoise

PointerSetSpeed ==
  /\ tx.sets < PointerSets
  /\ \E v \in PointerSpeeds :
       /\ v # dec.wpm
       /\ dec' = morseDecoder_setspeed(dec, v)
       /\ decArg' = v
  /\ tx' = [ tx EXCEPT !.sets = @ + 1 ]
  /\ UNCHANGED <<enc, now, pin, key, encArg, emits, rx, lost, sent, run, burst, pulse, trainer, prefs>>

\* decode() with a loud or a silent sample
PointerTick ==
  \E dt \in NoiseSteps, loud \in BOOLEAN :
    LET t     == now + dt
        audio == IF loud THEN 1023 ELSE 0
    IN /\ t <= PointerMaxTime
       /\ now' = t
       /\ key' = loud
       /\ dec' = decode(dec, t, loud, audio)
       /\ emits' = Emitted(dec, t, loud, audio)
       /\ rx' = NoArg
       /\ UNCHANGED <<enc, pin, decArg, encArg, lost, sent, run, burst, pulse, tx, trainer, prefs>>

\* if (available()) read()
PointerRead ==
  /\ morseDecoder_available(dec)
  /\ rx' = ReadValue(dec)
  /\ dec' = morseDecoder_read(dec)
  /\ emits' = << >>
  /\ UNCHANGED <<enc, now, pin, key, decArg, encArg, lost, sent, run, burst, pulse, tx, trainer, prefs>>

NextPointer == PointerSetSpeed \/ PointerTick \/ PointerRead

SpecPointer == InitPointer /\ [][NextPointer]_vars

\* C28: whatever the decode() calls, speed changes and reads so far,
\* morseTablePointer is an index of the 127 characters of morseTable.
C28_PointerInTable ==
  dec.morseTablePointer \in 0..(morseTableLength - 1)

\* six dashes have taken the decoder to the last character of the table
C28_Witness ==
  /\ dec.morseTablePointer = morseTableLength - 1
  /\ dec.morseTableJumper = 0
\* ------------------------------------------------------------------------
\* A digital decoder on a key line that may change at every decode()
\* ------------------------------------------------------------------------
InitBounce == InitKey

\* decode(); if (available()) read(); with the key down or up
BounceTick ==
  \E dt \in BounceSteps, down \in BOOLEAN :
    LET t       == now + dt
        reading == IF dec.activeLow THEN ~down ELSE down
        dd      == decode(dec, t, reading, 0)
    IN /\ t <= BounceMaxTime
       /\ now' = t
       /\ key' = down
       /\ dec' = IF morseDecoder_available(dd) THEN morseDecoder_read(dd)
                 ELSE dd
       /\ rx' = IF morseDecoder_available(dd) THEN ReadValue(dd) ELSE NoArg
       /\ emits' = Emitted(dec, t, reading, 0)
       /\ UNCHANGED <<enc, pin, decArg, encArg, lost, sent, run, burst, pulse, tx, trainer, prefs>>

NextBounce == BounceTick

SpecBounce == InitBounce /\ [][NextBounce]_vars

\* C31: lastDebounceTime is the time of the last decode() call that found
\* the raw level changed; morseSignalState changes only in a call that
\* finds the raw level as the call before did and more than debounceDelay
\* (20 ms) after that time, and then takes the raw level; a call no more
\* than 20 ms after a raw change leaves morseSignalState alone.
C31_Debounce ==
  [][ now' # now /\ ~dec.morseAudio =>
      /\ dec.debounceDelay = 20
      /\ dec'.lastDebounceTime =
           IF key' # key THEN now' ELSE dec.lastDebounceTime
      /\ dec'.morseSignalState # dec.morseSignalState =>
           /\ key' = key
           /\ now' - dec.lastDebounceTime > dec.debounceDelay
           /\ dec'.morseSignalState = key'
      /\ now' - dec'.lastDebounceTime <= dec.debounceDelay =>
           dec'.morseSignalState = dec.morseSignalState
      /\ now' - dec'.lastDebounceTime > dec.debounceDelay =>
           dec'.morseSignalState = key' ]_vars

\* after a bounce, the key has been taken for down by the call made 21 ms
\* after it went down for good
C31_Witness ==
  /\ dec.morseSignalState
  /\ key
  /\ now - dec.lastDebounceTime = dec.debounceDelay + 1
  /\ dec.markTime = dec.lastDebounceTime
  /\ dec.lastDebounceTime >= 3 * 7

\* ------------------------------------------------------------------------
\* The output while the encoder is idle and while it sends
\* ------------------------------------------------------------------------
\* C32: whenever the encoder is idle (available() is true) the output is
\* deasserted; the output is asserted only while a transmission is in progress
\* and the signal the encoder is on is a dot or a dash not yet marked as sent.
C32_IdleOutputLow ==
  /\ morseEncoder_available(enc) => ~pin
  /\ pin => /\ enc.sendingMorse
            /\ CurrentSignal(enc) \in { ".", "-" }

\* the encoder is idle again, the output low, after a character whose last dash
\* had been raised by the pause between two signals
C32_Witness ==
  /\ morseEncoder_available(enc) /\ ~pin
  /\ tx.doneSym = "x" /\ tx.dur = enc.dashTime
  /\ tx.upAt >= 2 * enc.dotTime /\ tx.fellAfter >= enc.dashTime
  /\ enc.encodeMorseChar = NUL

\* ------------------------------------------------------------------------
\* Two writes before one encode()
\* ------------------------------------------------------------------------
\* C33: a write() accepted while the encoder is idle leaves available() true
\* and makes its character the pending one, replacing a character written
\* before and not yet taken; the encode() call that follows starts the
\* transmission of the character last written, with that character's signal
\* string, and nothing of the replaced one is sent.
C33_LastWriteWins ==
  [][ /\ (tx'.writes = tx.writes + 1 /\ morseEncoder_available(enc)) =>
           /\ morseEncoder_available(enc')
           /\ enc'.encodeMorseChar = sent'
           /\ pin' = pin /\ ~pin'
      /\ (now' # now /\ morseEncoder_available(enc)
            /\ enc.encodeMorseChar # NUL) =>
           /\ enc.encodeMorseChar = sent
           /\ ~morseEncoder_available(enc')
           /\ enc'.encodeMorseChar = ToCapital(sent)
           /\ enc'.morseSignalString = PathOf(ScanTable(ToCapital(sent)) + 1)
           /\ enc'.sendingMorseSignalNr = 0
           /\ pin' = (PathOf(ScanTable(ToCapital(sent)) + 1)[1] # " ") ]_vars

\* 'E' was written over a pending 'T' and the first encode() call keys the one
\* dot of 'E'
C33_Witness ==
  /\ tx.writes = 2 /\ tx.over = 84 /\ sent = 69
  /\ tx.op = "encode" /\ now = 20
  /\ enc.sendingMorse /\ enc.encodeMorseChar = 69
  /\ enc.morseSignalString = << "." >> /\ pin

\* ------------------------------------------------------------------------
\* A character that the code table does not hold
\* ------------------------------------------------------------------------
\* C34 as stated: a written character that is absent from the table (and is
\* not '*') occupies the encoder like a word space: the encode() call that
\* takes it sets sendingMorse with the one-entry signal string " " and leaves
\* the output low, and available() stays false until an encode() call finds
\* more than wordSpace - dashTime elapsed since that start.
C34_UnmappedAsSpace ==
  [][ now' # now =>
        /\ (~enc.sendingMorse /\ enc.encodeMorseChar # NUL
              /\ ~InTable(enc.encodeMorseChar)) =>
             /\ enc'.sendingMorse
             /\ enc'.morseSignals = 1
             /\ enc'.morseSignalString = << " " >>
             /\ enc'.sendMorseTimer = now'
             /\ ~pin'
        /\ (enc.sendingMorse /\ ~InTable(tx.char)) =>
             /\ ~pin'
             /\ enc'.sendingMorse <=>
                  now' - enc.sendMorseTimer <= enc.wordSpace - enc.dashTime ]_vars

\* the same for the characters that the table does not hold after encode()
\* has changed them
UnmappedAfterChangeAsSpace ==
  [][ now' # now =>
        /\ (~enc.sendingMorse /\ enc.encodeMorseChar # NUL
              /\ ~InTable(ToCapital(enc.encodeMorseChar))) =>
             /\ enc'.sendingMorse
             /\ enc'.morseSignals = 1
             /\ enc'.morseSignalString = << " " >>
             /\ enc'.sendMorseTimer = now'
             /\ ~pin'
        /\ (enc.sendingMorse /\ ~InTable(enc.encodeMorseChar)) =>
             /\ ~pin'
             /\ enc'.sendingMorse <=>
                  now' - enc.sendMorseTimer <= enc.wordSpace - enc.dashTime ]_vars

\* a backslash, which the table does not hold before or after the change, has
\* kept the encoder busy with the output low and let it go
UnmappedAfterChangeSeen ==
  /\ tx.char = 92 /\ ~enc.sendingMorse /\ tx.doneSym = " "
  /\ tx.doneAfter > tx.doneNeed /\ tx.upAt = 0

\* ------------------------------------------------------------------------
\* Letters that the code table does not assign
\* ------------------------------------------------------------------------
\* the table entry that the pulses syms lead to from the tree top
EntryOf(syms) ==
  TableAt(Walk(morseTreetop, (morseTreetop + 1) \div 2, syms))

\* C35: at a letter boundary after 1 to 6 valid pulses the decoder stores the
\* table entry of the position the pulses led to, whatever it is: when that
\* entry is the unassigned '*', available() is true and read() delivers '*';
\* the letter is neither dropped nor stored as '#'.
C35_StarEmitted ==
  (burst.word # << >> /\ Len(burst.word) <= morseTreeLevels) =>
    /\ emits = << EntryOf(burst.word) >>
    /\ rx = EntryOf(burst.word)
    /\ EntryOf(burst.word) = STAR => rx = STAR /\ rx # HASH /\ rx # NoArg
    /\ dec.morseTablePointer = morseTreetop
    /\ dec.morseTableJumper = (morseTreetop + 1) \div 2

\* dot dot dash dash leads to an unassigned position and '*' was read
C35_Witness ==
  /\ burst.word = << ".", ".", "-", "-" >>
  /\ EntryOf(burst.word) = STAR
  /\ emits = << STAR >> /\ rx = STAR

\* ------------------------------------------------------------------------
\* The preference table: setup(), the preference menu
\* ------------------------------------------------------------------------
\* an EEPROM that was never written
Erased == [ i \in 1..NUM_PREFS |-> 255 ]

\* a saved table with n at KOCH_NUM and k at KOCH_SKIP
Saved(n, k) == << SAVED, 1, 0, 25, 5, n, k, 1 >>

InitPrefs == InitSend

\* prefs_init() has run: prefs_set never leaves 0 at GROUP_NUM
Restored == prefs[GROUP_NUM] # 0

\* setup(): prefs_init();
PrefsInit ==
  /\ ~Restored
  /\ \E rom \in { Erased } \cup { Saved(n, k) : n, k \in RomKoch } :
       prefs' = prefs_init(prefs, rom)
  /\ UNCHANGED <<dec, enc, now, pin, key, decArg, encArg, emits, rx, lost, sent, run, burst, pulse, tx, trainer>>

\* set_prefs(), the right button: tmp = ++p_val; p_val = prefs_set(pref, tmp);
PrefsRight ==
  /\ Restored
  /\ \E pref \in PrefsMenu :
       prefs' = prefs_set(prefs, pref, prefs[pref] + 1)
  /\ UNCHANGED <<dec, enc, now, pin, key, decArg, encArg, emits, rx, lost, sent, run, burst, pulse, tx, trainer>>

\* set_prefs(), the left button: tmp = --p_val; p_val = prefs_set(pref, tmp);
PrefsLeft ==
  /\ Restored
  /\ \E pref \in PrefsMenu :
       prefs' = prefs_set(prefs, pref, prefs[pref] - 1)
  /\ UNCHANGED <<dec, enc, now, pin, key, decArg, encArg, emits, rx, lost, sent, run, burst, pulse, tx, trainer>>

\* set_prefs(), the select button: prefs_set(SAVED_FLG, 170);
PrefsSave ==
  /\ Restored
  /\ prefs' = prefs_set(prefs, SAVED_FLG, SAVED)
  /\ UNCHANGED <<dec, enc, now, pin, key, decArg, encArg, emits, rx, lost, sent, run, burst, pulse, tx, trainer>>

NextPrefs == PrefsInit \/ PrefsRight \/ PrefsLeft \/ PrefsSave

SpecPrefs == InitPrefs /\ [][NextPrefs]_vars

\* C36 as stated: after prefs_init() and any sequence of prefs_set calls
\* the number of Koch characters to skip is less than the number of Koch
\* characters to use, prefs[KOCH_SKIP] < prefs[KOCH_NUM].
C36_SkipBelowNum ==
  Restored => prefs[KOCH_SKIP] < prefs[KOCH_NUM]

\* what the code keeps: every entry within its limits, and the skip count
\* below the Koch number in the state a change of the skip count leaves
WithinLimits ==
  Restored =>
    \A i \in 0..(NUM_PREFS - 1) :
      lo_lim[i + 1] <= prefs[i] /\ prefs[i] <= hi_lim[i + 1]

SkipCheckedWhenSet ==
  [][ (Restored /\ prefs'[KOCH_SKIP] # prefs[KOCH_SKIP]) \/ ~Restored =>
        prefs'[KOCH_SKIP] < prefs'[KOCH_NUM] ]_vars

\* the skip count was raised to 4 and then the Koch number lowered to it
SkipNotBelowSeen ==
  /\ prefs[SAVED_FLG] = 0
  /\ prefs[KOCH_SKIP] = 4 /\ prefs[KOCH_NUM] = 4

====
